---- MODULE Spec2Model ----
(***************************************************************************)
(* Model of the concurrent task execution core of the SSH collector:       *)
(*   - SSHCollector.collect_with_retry   (src/src/ssh_core.py)             *)
(*   - MultiThreadSSHCollector           (src/src/ssh_core.py)             *)
(*   - ThreadPoolManager                 (src/src/thread_pool_manager.py)  *)
(*   - SSHCollector._apply_plugin_command_params, SSHCredentials           *)
(*   - PluginManager                     (src/addone/plugin_manager.py)    *)
(*   - TaskProcessor, RabbitMQConsumer   (src/src/mq_consumer.py)          *)
(* SpecRetry runs one collect_with_retry call; SpecBatch runs one batch    *)
(* call (execute_batch_tasks, or execute_tasks_parallel called directly);  *)
(* SpecResolver runs one call of the command resolver; SpecCreds builds    *)
(* one SSHCredentials value and validates it as connect() does; SpecPool   *)
(* runs start, submit_task and stop of one ThreadPoolManager; SpecRegistry *)
(* loads and reloads the PluginManager; SpecSession makes any sequence of  *)
(* connect, execute_commands and disconnect calls on one SSHCollector.     *)
(* SpecPoolRegistry runs submit_task, stop and the lookups of the task     *)
(* registry on a started ThreadPoolManager; SpecProcessor runs calls of    *)
(* TaskProcessor.process_collection_task from two threads; SpecConsumer    *)
(* runs RabbitMQConsumer._message_callback on the messages delivered.      *)
(***************************************************************************)
EXTENDS Integers, Sequences, FiniteSets, TLC

\* ---------------------------------------------------------------- bounds
MaxRetry == 3
MaxCmds == 2
MaxDelay == 2
MaxTasks == 3
MaxWorkers == 2
MaxBatchCmds == 1
MaxTextLen == 2
MaxPoolTasks == 2
MaxPoolRetry == 2
MaxStops == 1
MaxFiles == 3
MaxReloads == 1
MaxCalls == 3
MaxBatches == 2
MaxObsCalls == 1
MaxProcCalls == 2
MaxMessages == 2
MaxSessCmds == 2

\* ------------------------------------------------------------- variables
VARIABLES
    \* --- the CollectionTask and the settings of one collect_with_retry run
    retry_count,      \* task.retry_count
    ncommands,        \* len(task.commands)
    creds_valid,      \* validate_ssh_params(task.credentials)
    ssh_retry_delay,  \* settings.ssh_retry_delay
    \* --- position and locals of collect_with_retry
    pc,               \* "idle" | "start" | "loop" | "executing" | "sleeping" | "returned"
    attempt,          \* the loop variable of `for attempt in range(retry_count)`
    connection,       \* self.connection: "none" | "open"
    results,          \* results of execute_commands, one BOOLEAN (success) per command
    last_error,       \* last_error: "none" or the kind of the last exception
    result,           \* the dict returned by collect_with_retry
    lifecycle,        \* the status values written to the task record, in order
    \* --- observations of the calls made by the run
    connectCalls,     \* number of self.connect calls
    networkOpens,     \* number of ConnectHandler(...) calls
    disconnectCalls,  \* number of self.disconnect calls
    sleeps,           \* the arguments of time.sleep, in order
    connectLog,       \* outcome of every connect call, in order
    execLog,          \* per connect call, how execute_commands ended: "none" (not run
                      \* or still running) | "returned" | "raised"
    dbCalls           \* the persistence calls made by the run, in order: "create" |
                      \* "running" | "complete"

retryVars == <<retry_count, ncommands, creds_valid, ssh_retry_delay, pc, attempt,
               connection, results, last_error, result, lifecycle, connectCalls,
               networkOpens, disconnectCalls, sleeps, connectLog, execLog, dbCalls>>

VARIABLES
    \* --- the arguments and the configuration of one batch call
    entry,            \* the function called: "execute_batch_tasks" | "execute_tasks_parallel"
    ntasks,           \* len(tasks); the tasks have the task ids 1..ntasks
    enable_threading, \* argument enable_threading: "none" | "true" | "false"
    settings_enable_threading,  \* settings.enable_threading
    pool_enabled,     \* thread_pool_manager.enabled
    max_workers,      \* argument max_workers; 0 stands for None
    \* --- position and locals of the batch call
    bpc,              \* "idle" | "start" | "serial" | "submitting" | "collecting" |
                      \* "shutdown" | "returned" | "raised"
    mode,             \* "none" | "serial_batch" | "serial_pool" | "parallel"
    workers,          \* max_workers of the ThreadPoolExecutor of a parallel run
    cursor,           \* index of the next task to call (serial) or to submit (parallel)
    fut,              \* per task: "none" | "queued" | "running" | "stuck" | "done" | "collected"
    futResult,        \* per task: what task_func returned or raised
    pool_results,     \* the list `results` of the batch call
    batch_result,     \* the dict returned by execute_batch_tasks
    timed_out,        \* as_completed raised TimeoutError
    raised_error,     \* the exception that left the batch call, "none" if none
    startOrder        \* the task ids in the order in which task_func was entered

batchVars == <<entry, ntasks, enable_threading, settings_enable_threading, pool_enabled,
               max_workers, bpc, mode, workers, cursor, fut, futResult, pool_results,
               batch_result, timed_out, raised_error, startOrder>>

VARIABLES
    \* --- one call of the command resolver
    cmd,              \* the SSHCommand of the caller
    device_type,      \* self.device_type, the tag of the connected device
    plugins,          \* the module-level plugin_manager: whether the import gave
                      \* one, and what its _plugins holds for KnownType
    profile,          \* what the lookup gave for the device type
    resolved,         \* the SSHCommand returned by _apply_plugin_command_params
    resolved_again,   \* the SSHCommand returned when `resolved` is resolved again
    sent,             \* the keyword arguments of connection.send_command
    rpc               \* "idle" | "input" | "resolved" | "again" | "sent"

resolverVars == <<cmd, device_type, plugins, profile, resolved, resolved_again, sent, rpc>>

VARIABLES
    \* --- construction and validation of one SSHCredentials value
    credsIn,          \* the keyword arguments: per field "missing" | "empty" | "set"
    credsOut,         \* "none" | "constructed" | "ValidationError"
    credsChecked      \* result of validate_ssh_params on it: "none" | "valid" | "invalid"

credsVars == <<credsIn, credsOut, credsChecked>>

VARIABLES
    \* --- one ThreadPoolManager, a client thread, a stopping thread, its tasks
    p_enabled,        \* self.enabled
    p_executor,       \* self._executor: "none" | "alloc"
    p_lock,           \* holder of self._lock: "free" | "client" | "stopper"
    p_active,         \* keys of self._active_tasks
    p_status,         \* per submitted task: "none" | "queued" | "cancelled" | "connect" |
                      \* "command" | "sleep" | "done"
    p_attempt,        \* per task: the loop index of its collect_with_retry
    p_client,         \* position of the client thread: "idle" | "start_wait" |
                      \* "start_locked" | "submit_wait" | "submit_locked" |
                      \* "submit_after_start"
    p_nested,         \* the start() the client is in was called by submit_task
    p_next,           \* task id of the next submit_task call
    p_startCalls,     \* number of start() calls made by the client itself
    p_ret,            \* per task: what submit_task returned: "none" | "future" | "None"
    p_stopper,        \* position of the stopping thread: "idle" | "stop_wait" |
                      \* "stop_locked" | "shutdown"
    p_stops,          \* number of stop() calls that returned
    p_atStop,         \* per task: its status when stop() ran its cancel loop
    p_lateConnect,    \* per task: it began a connect attempt after that point
    p_batch,          \* a batch of execute_tasks_parallel run by another thread:
                      \* "none" | "running" | "finished" | "failed"
    p_max_workers,    \* self.max_workers
    p_local,          \* the ThreadPoolExecutor local to the running batch:
                      \* "none" | "alloc"
    p_batches,        \* number of execute_tasks_parallel calls made
    p_observer,       \* position of a third thread that calls wait_for_task,
                      \* cancel_task and get_status: "idle" | "wait_result" |
                      \* "pop_wait" | "pop_locked" | "status_wait" | "status_locked"
    p_obs_task,       \* the task id of its wait_for_task / cancel_task call
    p_obs_calls,      \* number of calls it has made
    p_access          \* the last access to self._active_tasks: the thread, the
                      \* method, the kind of access and whether that thread
                      \* held self._lock

poolVars == <<p_enabled, p_executor, p_lock, p_active, p_status, p_attempt, p_client,
             p_nested, p_next, p_startCalls, p_ret, p_stopper, p_stops, p_atStop,
             p_lateConnect, p_batch, p_max_workers, p_local, p_batches, p_observer,
             p_obs_task, p_obs_calls, p_access>>

VARIABLES
    \* --- one PluginManager, the thread that loads it and a thread that looks up
    g_files,          \* the *.py files of the plugin directory in glob order, each by
                      \* what loading it does: "good" | "raises" | "no_config" |
                      \* "unreadable"
    g_plugins,        \* keys of self._plugins: positions of the registered files
    g_pc,             \* "idle" | "new" | "loading" | "ready" | "raised"
    g_idx,            \* position of the for loop of _load_plugins
    g_reloads,        \* number of reload_plugins calls made
    g_seen            \* the table a lookup made after construction observed

registryVars == <<g_files, g_plugins, g_pc, g_idx, g_reloads, g_seen>>

VARIABLES
    \* --- one SSHCollector instance and the calls made on it, one after another
    s_conn,           \* self.connection: 0 for None, else the id of the transport
    s_live,           \* ids of the transports opened by the instance and not closed
    s_opened,         \* number of transports opened so far (ConnectHandler calls
                      \* that returned)
    s_calls,          \* number of calls made on the instance
    s_prev,           \* self.connection when the last call was made
    s_last,           \* the last call: its name, how it ended, the transport
                      \* operations it made, whether the transport's close raised
    s_pc,             \* "off" | "idle" | "executing" (inside execute_commands)
    s_plan,           \* execute_commands: per command what executing it does:
                      \* "ok" | "fail" (send_command raises) | "escape" (an
                      \* exception is raised before the try block)
    s_sent,           \* the positions of the commands sent to the transport, in order
    s_results         \* the list `results` of execute_commands

sessionVars == <<s_conn, s_live, s_opened, s_calls, s_prev, s_last, s_pc, s_plan, s_sent,
                 s_results>>

VARIABLES
    \* --- one TaskProcessor and the threads that call process_collection_task
    q_processing,     \* self.processing_tasks
    q_pc,             \* per calling thread: "idle" | "check" | "add" | "executing" |
                      \* "finally" | "returned"
    q_task,           \* per thread: the task_id of its call, 0 for a missing one
    q_result,         \* per thread: what its call returned: "none" | "rejected" |
                      \* "no_task_id" | "success" | "failure" | "error"
    q_calls,          \* number of calls made
    \* --- one RabbitMQConsumer and the messages delivered to its callback
    m_pc,             \* "off" | "idle" | "parse" | "process" | "publish" | "ack"
    m_body,           \* the body of the message being handled
    m_log,            \* what the callback has done for this message, in order
    m_settled,        \* the basic_ack / basic_nack calls made for this message
    m_count,          \* number of messages delivered
    m_history         \* the messages the callback has returned from: body,
                      \* what was done, how the message was settled

processorVars == <<q_processing, q_pc, q_task, q_result, q_calls>>

consumerVars == <<m_pc, m_body, m_log, m_settled, m_count, m_history>>

mqVars == <<processorVars, consumerVars>>

\* what the actions of one component leave alone
nonRetryVars == <<batchVars, resolverVars, credsVars, poolVars,
                  registryVars, sessionVars, mqVars>>
nonBatchVars == <<retryVars, resolverVars, credsVars, poolVars,
                  registryVars, sessionVars, mqVars>>
nonResolverVars == <<retryVars, batchVars, credsVars, poolVars,
                     registryVars, sessionVars, mqVars>>
nonCredsVars == <<retryVars, batchVars, resolverVars, poolVars,
                  registryVars, sessionVars, mqVars>>
nonPoolVars == <<retryVars, batchVars, resolverVars, credsVars,
                 registryVars, sessionVars, mqVars>>
nonRegistryVars == <<retryVars, batchVars, resolverVars, credsVars,
                     poolVars, sessionVars, mqVars>>
nonSessionVars == <<retryVars, batchVars, resolverVars, credsVars,
                    poolVars, registryVars, mqVars>>
nonMqVars == <<retryVars, batchVars, resolverVars, credsVars,
               poolVars, registryVars, sessionVars>>

vars == <<retryVars, batchVars, resolverVars, credsVars,
         poolVars, registryVars, sessionVars, mqVars>>

\* ------------------------------------------------------- result records
\* The task id of the single task of a collect_with_retry run.
TheTaskId == 1

\* the host of the credentials of task tid; 0 stands for no host
host_of(tid) == 100 + tid

NoData == [present |-> FALSE, task_id |-> 0, host |-> 0, total_commands |-> 0,
           success_commands |-> 0, failed_commands |-> 0, attempt |-> 0]

\* text is what the error string holds: "none" (no error) | "empty" | "message"
NoError == [present |-> FALSE, task_id |-> 0, retried |-> 0, last |-> "none",
            text |-> "none"]

\* the keys total_commands, success_commands and failed_commands at the top
\* level of a result dict; present is FALSE when the dict has no such keys
NoCounts == [present |-> FALSE, total_commands |-> 0, success_commands |-> 0,
             failed_commands |-> 0]

NoResult == [returned |-> FALSE, success |-> FALSE, task_id |-> 0, host |-> 0,
             data |-> NoData, error |-> NoError, counts |-> NoCounts]

\* utils.format_ssh_result: data is kept only on success, error only on failure.
format_ssh_result(success, data, error) ==
    [returned |-> TRUE,
     success  |-> success,
     task_id  |-> 0,
     host     |-> 0,
     data     |-> IF success /\ data.present THEN data ELSE NoData,
     error    |-> IF ~success /\ error.present /\ error.text # "empty"
                  THEN error ELSE NoError,
     counts   |-> NoCounts]

\* sum(1 for r in results if r["success"])
RECURSIVE success_count(_)
success_count(rs) ==
    IF rs = <<>> THEN 0
    ELSE (IF Head(rs) THEN 1 ELSE 0) + success_count(Tail(rs))

\* the loop index reported as it is
attempt_number_zero_based(a) == a

\* the "attempt" field of result_data: attempt + 1
attempt_number(a) == a + 1

\* result_data of a successful attempt
result_data(tid, rs, a) ==
    [present          |-> TRUE,
     task_id          |-> tid,
     host             |-> host_of(tid),
     total_commands   |-> Len(rs),
     success_commands |-> success_count(rs),
     failed_commands  |-> Len(rs) - success_count(rs),
     attempt          |-> attempt_number(a)]

\* f"{error_msg}: {str(last_error)}", error_msg naming the task and retry_count
failure_error(tid, rc, le) ==
    [present |-> TRUE, task_id |-> tid, retried |-> rc, last |-> le,
     text |-> "message"]

\* a backoff that does not grow with the attempt number
wait_time_constant(delay, a) == delay

\* wait_time = settings.ssh_retry_delay * (attempt + 1)
wait_time(delay, a) == delay * (a + 1)

\* `if attempt < task.retry_count - 1`: a backoff sleep follows the failed attempt
retry_follows(a, rc) == a < rc - 1


\* ------------------------------------------------- collect_with_retry
ConnectFailures == {"auth", "timeout", "error"}

\* SSHCollector.connect: the outcome of one call. Invalid credentials raise
\* before ConnectHandler is called; otherwise the network decides.
connect_outcome(net) == IF creds_valid THEN net ELSE "invalid"

\* number of ConnectHandler(...) calls made by a connect call with this outcome
network_opened(outcome) == IF outcome = "invalid" THEN 0 ELSE 1

\* SSHCollector.disconnect: closes the transport if there is one, never raises,
\* and leaves self.connection = None.
disconnect(conn) == "none"

\* create_task_record + update_task_status("running"), inside one try block:
\* the second call is skipped when the first raises.
start_records(created, running) ==
    IF ~created THEN <<>>
    ELSE IF running THEN <<"pending", "running">> ELSE <<"pending">>

\* complete_task: needs the task record; may itself raise (swallowed by the caller).
complete_record(lc, ok, success) ==
    IF lc # <<>> /\ ok
    THEN Append(lc, IF success THEN "completed" ELSE "failed")
    ELSE lc

\* a start block that calls create_task_record again when it raised
start_calls_retrying(created) ==
    IF created THEN <<"create", "running">> ELSE <<"create", "create">>

\* the persistence calls of the start block: update_task_status is reached only
\* when create_task_record returned; a failure is logged, nothing is called again
start_calls(created) == IF created THEN <<"create", "running">> ELSE <<"create">>

\* the one complete_task call of the run, made whatever happened before
complete_call(calls) == Append(calls, "complete")

\* lines 286-306: start of the run, task record created and marked running.
Begin ==
    /\ pc = "start"
    /\ UNCHANGED nonRetryVars
    /\ \E created, running \in BOOLEAN :
          /\ lifecycle' = start_records(created, running)
          /\ dbCalls' = start_calls(created)
    /\ attempt' = 0
    /\ pc' = "loop"
    /\ UNCHANGED <<retry_count, ncommands, creds_valid, ssh_retry_delay, connection,
                   results, last_error, result, connectCalls, networkOpens,
                   disconnectCalls, sleeps, connectLog, execLog>>

\* an except branch that sleeps and retries without closing the connection
except_branch_leaking(kind) ==
    /\ last_error' = kind
    /\ connection' = connection
    /\ disconnectCalls' = disconnectCalls
    /\ IF retry_follows(attempt, retry_count)
       THEN /\ sleeps' = Append(sleeps, wait_time(ssh_retry_delay, attempt))
            /\ pc' = "sleeping"
            /\ attempt' = attempt
       ELSE /\ sleeps' = sleeps
            /\ pc' = "loop"
            /\ attempt' = attempt + 1

\* lines 355-366: the except branch of one attempt. The connection is closed,
\* and unless this was the last attempt the run sleeps wait_time.
except_branch(kind) ==
    /\ last_error' = kind
    /\ connection' = disconnect(connection)
    /\ disconnectCalls' = disconnectCalls + 1
    /\ IF retry_follows(attempt, retry_count)
       THEN /\ sleeps' = Append(sleeps, wait_time(ssh_retry_delay, attempt))
            /\ pc' = "sleeping"
            /\ attempt' = attempt
       ELSE /\ sleeps' = sleeps
            /\ pc' = "loop"
            /\ attempt' = attempt + 1

\* a loop that makes its first attempt whatever retry_count says
Connect_at_least_once ==
    /\ pc = "loop"
    /\ UNCHANGED nonRetryVars
    /\ UNCHANGED dbCalls
    /\ attempt < retry_count \/ connectCalls = 0
    /\ \E net \in {"ok"} \cup ConnectFailures :
          LET outcome == connect_outcome(net) IN
          /\ connectCalls' = connectCalls + 1
          /\ networkOpens' = networkOpens + network_opened(outcome)
          /\ connectLog' = Append(connectLog, outcome)
          /\ execLog' = Append(execLog, "none")
          /\ IF outcome = "ok"
             THEN /\ connection' = "open"
                  /\ results' = <<>>
                  /\ pc' = "executing"
                  /\ UNCHANGED <<attempt, last_error, disconnectCalls, sleeps>>
             ELSE /\ except_branch(outcome)
                  /\ results' = results
    /\ UNCHANGED <<retry_count, ncommands, creds_valid, ssh_retry_delay, result,
                   lifecycle>>

\* lines 308-314: one more iteration of the loop, self.connect(task.credentials).
Connect ==
    /\ pc = "loop"
    /\ UNCHANGED nonRetryVars
    /\ UNCHANGED dbCalls
    /\ attempt < retry_count
    /\ \E net \in {"ok"} \cup ConnectFailures :
          LET outcome == connect_outcome(net) IN
          /\ connectCalls' = connectCalls + 1
          /\ networkOpens' = networkOpens + network_opened(outcome)
          /\ connectLog' = Append(connectLog, outcome)
          /\ execLog' = Append(execLog, "none")
          /\ IF outcome = "ok"
             THEN /\ connection' = "open"
                  /\ results' = <<>>
                  /\ pc' = "executing"
                  /\ UNCHANGED <<attempt, last_error, disconnectCalls, sleeps>>
             ELSE /\ except_branch(outcome)
                  /\ results' = results
    /\ UNCHANGED <<retry_count, ncommands, creds_valid, ssh_retry_delay, result,
                   lifecycle>>

\* a failing command that aborts the attempt and is retried like a failed connect
ExecuteCommand_retrying ==
    /\ pc = "executing"
    /\ UNCHANGED nonRetryVars
    /\ UNCHANGED dbCalls
    /\ Len(results) < ncommands
    /\ \E ok \in BOOLEAN :
          /\ results' = Append(results, ok)
          /\ IF ok
             THEN UNCHANGED <<pc, attempt, connection, last_error, disconnectCalls,
                             sleeps, execLog>>
             ELSE /\ except_branch("command")
                  /\ execLog' = [execLog EXCEPT ![Len(execLog)] = "raised"]
    /\ UNCHANGED <<retry_count, ncommands, creds_valid, ssh_retry_delay, result,
                   lifecycle, connectCalls, networkOpens, connectLog>>

\* lines 259-263 and 198-249: execute_commands runs the next command;
\* a failing command is recorded with success = False and the loop goes on.
ExecuteCommand ==
    /\ pc = "executing"
    /\ UNCHANGED nonRetryVars
    /\ UNCHANGED dbCalls
    /\ Len(results) < ncommands
    /\ \E ok \in BOOLEAN : results' = Append(results, ok)
    /\ UNCHANGED <<retry_count, ncommands, creds_valid, ssh_retry_delay, pc, attempt,
                   connection, last_error, result, lifecycle, connectCalls,
                   networkOpens, disconnectCalls, sleeps, connectLog, execLog>>

\* lines 200-205: an exception escapes execute_command (it is raised outside
\* the try block of execute_command) and so escapes execute_commands.
ExecuteRaise ==
    /\ pc = "executing"
    /\ UNCHANGED nonRetryVars
    /\ UNCHANGED dbCalls
    /\ Len(results) < ncommands
    /\ except_branch("execute")
    /\ execLog' = [execLog EXCEPT ![Len(execLog)] = "raised"]
    /\ UNCHANGED <<retry_count, ncommands, creds_valid, ssh_retry_delay, results,
                   result, lifecycle, connectCalls, networkOpens, connectLog>>

\* lines 319-353: execute_commands returned; disconnect, build result_data,
\* record completion, return.
FinishSuccess ==
    /\ pc = "executing"
    /\ UNCHANGED nonRetryVars
    /\ Len(results) = ncommands
    /\ connection' = disconnect(connection)
    /\ disconnectCalls' = disconnectCalls + 1
    /\ execLog' = [execLog EXCEPT ![Len(execLog)] = "returned"]
    /\ \E ok \in BOOLEAN : lifecycle' = complete_record(lifecycle, ok, TRUE)
    /\ dbCalls' = complete_call(dbCalls)
    /\ result' = format_ssh_result(TRUE, result_data(TheTaskId, results, attempt), NoError)
    /\ pc' = "returned"
    /\ UNCHANGED <<retry_count, ncommands, creds_valid, ssh_retry_delay, attempt,
                   results, last_error, connectCalls, networkOpens, sleeps, connectLog>>

\* line 366: time.sleep(wait_time) returns, the loop goes to the next attempt.
Wake ==
    /\ pc = "sleeping"
    /\ UNCHANGED nonRetryVars
    /\ UNCHANGED dbCalls
    /\ attempt' = attempt + 1
    /\ pc' = "loop"
    /\ UNCHANGED <<retry_count, ncommands, creds_valid, ssh_retry_delay, connection,
                   results, last_error, result, lifecycle, connectCalls, networkOpens,
                   disconnectCalls, sleeps, connectLog, execLog>>

\* lines 368-387: the loop is exhausted; record the failure and return it.
Exhausted ==
    /\ pc = "loop"
    /\ UNCHANGED nonRetryVars
    /\ attempt >= retry_count
    /\ \E ok \in BOOLEAN : lifecycle' = complete_record(lifecycle, ok, FALSE)
    /\ dbCalls' = complete_call(dbCalls)
    /\ result' = format_ssh_result(FALSE, NoData,
                                   failure_error(TheTaskId, retry_count, last_error))
    /\ pc' = "returned"
    /\ UNCHANGED <<retry_count, ncommands, creds_valid, ssh_retry_delay, attempt,
                   connection, results, last_error, connectCalls, networkOpens,
                   disconnectCalls, sleeps, connectLog, execLog>>

\* ======================================================================
\* Command resolver: SSHCollector._apply_plugin_command_params
\* ======================================================================

\* Command text is a sequence of characters. delay_factor is kept in tenths
\* (1.0 is 10); expect_string None is the string "None".
Alphabet == {"a", "A", " "}

Texts == UNION {[1..n -> Alphabet] : n \in 0..MaxTextLen}

\* SSHCommand.delay_factor default 1.0, in tenths
default_delay_factor == 10

\* SSHCommand.max_loops default
default_max_loops == 500

FieldNames == {"expect_string", "delay_factor", "max_loops"}

\* str.lower on one character
lower_char(c) == IF c = "A" THEN "a" ELSE IF c = "D" THEN "d" ELSE c

\* str.lower
lower(t) == [i \in 1..Len(t) |-> lower_char(t[i])]

RECURSIVE lstrip(_)
lstrip(t) == IF t # <<>> /\ Head(t) = " " THEN lstrip(Tail(t)) ELSE t

RECURSIVE rstrip(_)
rstrip(t) ==
    IF t # <<>> /\ t[Len(t)] = " " THEN rstrip(SubSeq(t, 1, Len(t) - 1)) ELSE t

\* str.strip
strip(t) == rstrip(lstrip(t))

\* a lookup key that keeps the case of the text
normalize_command_case_sensitive(t) == strip(t)

\* .strip().lower(), applied to the caller's text and to the profile's text
normalize_command(t) == lower(strip(t))

\* params overwrite whatever the caller set
apply_params_overwriting(orig, dict, params) ==
    [command       |-> dict.command,
     expect_string |-> IF "expect_string" \in params.has
                       THEN params.expect_string ELSE dict.expect_string,
     delay_factor  |-> IF "delay_factor" \in params.has
                       THEN params.delay_factor ELSE dict.delay_factor,
     max_loops     |-> IF "max_loops" \in params.has
                       THEN params.max_loops ELSE dict.max_loops]

\* the three conditional assignments: a field is taken from params when the
\* caller's command has the default there and params defines it
apply_params(orig, dict, params) ==
    [command       |-> dict.command,
     expect_string |-> IF orig.expect_string = "None" /\ "expect_string" \in params.has
                       THEN params.expect_string ELSE dict.expect_string,
     delay_factor  |-> IF orig.delay_factor = default_delay_factor
                          /\ "delay_factor" \in params.has
                       THEN params.delay_factor ELSE dict.delay_factor,
     max_loops     |-> IF orig.max_loops = default_max_loops /\ "max_loops" \in params.has
                       THEN params.max_loops ELSE dict.max_loops]

\* the positions of the entries of `commands` whose command text matches
matching_entries(text, commands) ==
    {k \in 1..Len(commands) :
        normalize_command(commands[k].command) = normalize_command(text)}

\* the entry the for loop stops at (break): the first one that matches
first_match(text, commands) ==
    CHOOSE k \in matching_entries(text, commands) :
        \A j \in matching_entries(text, commands) : k <= j

\* a resolver that applies the generic defaults only
apply_plugin_command_params_generic_only(c, prof) ==
    IF ~prof.present THEN c ELSE apply_params(c, c, prof.command_params)

\* SSHCollector._apply_plugin_command_params(ssh_command, device_type), prof being
\* plugin_manager.get_device_config(device_type); prof.present is FALSE when there
\* is no plugin manager or no plugin for the device type. A profile without the
\* key command_params (commands) is one whose command_params.has (commands) is empty.
apply_plugin_command_params(c, prof) ==
    IF ~prof.present THEN c
    ELSE LET generic == apply_params(c, c, prof.command_params) IN
         IF matching_entries(c.command, prof.commands) = {} THEN generic
         ELSE apply_params(c, generic,
                           prof.commands[first_match(c.command, prof.commands)])

NoProfile ==
    [present |-> FALSE,
     command_params |-> [has |-> {}, expect_string |-> "None", delay_factor |-> 0,
                         max_loops |-> 0],
     commands |-> <<>>]

\* the command text of the display_version entry of addone/huawei.py
display_version ==
    <<"d", "i", "s", "p", "l", "a", "y", " ", "v", "e", "r", "s", "i", "o",
      "n">>

\* the command text of the display_current entry
display_current ==
    <<"d", "i", "s", "p", "l", "a", "y", " ", "c", "u", "r", "r", "e", "n",
      "t">>

\* the command text of the display_current_configuration entry
display_current_configuration ==
    <<"d", "i", "s", "p", "l", "a", "y", " ", "c", "u", "r", "r", "e", "n",
      "t", "-", "c", "o", "n", "f", "i", "g", "u", "r", "a", "t", "i", "o",
      "n">>

\* the command text of the display_interface entry
display_interface ==
    <<"d", "i", "s", "p", "l", "a", "y", " ", "i", "n", "t", "e", "r", "f",
      "a", "c", "e">>

\* the command text of the display_ip_routing entry
display_ip_routing ==
    <<"d", "i", "s", "p", "l", "a", "y", " ", "i", "p", " ", "r", "o", "u",
      "t", "i", "n", "g", "-", "t", "a", "b", "l", "e">>

\* the same command as a caller may type it: other case, surrounding blanks
caller_display_current_configuration ==
    <<" ", "D", "i", "s", "p", "l", "a", "y", " ", "c", "u", "r", "r", "e",
      "n", "t", "-", "c", "o", "n", "f", "i", "g", "u", "r", "a", "t", "i",
      "o", "n", " ">>

\* addone/huawei.py DEVICE_CONFIG: command_params and the entries of commands
HuaweiProfile ==
    [present |-> TRUE,
     command_params |-> [has |-> FieldNames, expect_string |-> "]",
                         delay_factor |-> 30, max_loops |-> 1000],
     commands |-> <<
        [command |-> display_version,
         has |-> FieldNames, expect_string |-> "]", delay_factor |-> 20, max_loops |-> 500],
        [command |-> display_current,
         has |-> FieldNames, expect_string |-> "]", delay_factor |-> 30, max_loops |-> 1000],
        [command |-> display_current_configuration,
         has |-> FieldNames, expect_string |-> "]", delay_factor |-> 30, max_loops |-> 2000],
        [command |-> display_interface,
         has |-> FieldNames, expect_string |-> "]", delay_factor |-> 20, max_loops |-> 800],
        [command |-> display_ip_routing,
         has |-> FieldNames, expect_string |-> "]", delay_factor |-> 20, max_loops |-> 500]
     >>]

\* the commands of the callers that talk to a huawei device
HuaweiCommandTexts ==
    {display_current_configuration,
     caller_display_current_configuration,
     display_version}

\* the SSHCommand values a caller can build
CallerCommands(texts) ==
    [command : texts, expect_string : {"None", ">"},
     delay_factor : {default_delay_factor, 20}, max_loops : {default_max_loops, 800}]

\* generic command defaults of a profile: every field defined or not
GenericParams ==
    {[has |-> h, expect_string |-> "]", delay_factor |-> 30, max_loops |-> 1000] :
        h \in SUBSET FieldNames}

\* per-command overrides: the stored text is not normalized, and a defined field
\* may hold the default value
OverrideEntries ==
    {[command |-> t, has |-> f.has, expect_string |-> f.expect_string,
      delay_factor |-> f.delay_factor, max_loops |-> f.max_loops] :
        t \in {<<"a">>, <<" ", "A">>},
        f \in {[has |-> FieldNames, expect_string |-> "#", delay_factor |-> 25,
                max_loops |-> 2000],
               [has |-> {"max_loops"}, expect_string |-> "#", delay_factor |-> 25,
                max_loops |-> default_max_loops],
               [has |-> {"delay_factor"}, expect_string |-> "#",
                delay_factor |-> default_delay_factor, max_loops |-> 2000],
               [has |-> {}, expect_string |-> "#", delay_factor |-> 25,
                max_loops |-> 2000]}}

\* a later entry for the same command, which the loop never reaches
ShadowedEntry ==
    [command |-> <<"a">>, has |-> FieldNames, expect_string |-> "$",
     delay_factor |-> 15, max_loops |-> 300]

OverrideTables ==
    {<<>>} \cup {<<e>> : e \in OverrideEntries}
           \cup {<<e, ShadowedEntry>> : e \in OverrideEntries}

Profiles ==
    {NoProfile} \cup
    {[present |-> TRUE, command_params |-> g, commands |-> o] :
        g \in GenericParams, o \in OverrideTables}

\* the device type that has a plugin file, and one that has none
KnownType == "huawei"

OtherType == "juniper_junos"

DeviceTypes == {KnownType, OtherType}

\* plugin_manager = None after a failed import (ssh_core.py:16-20)
NoRegistry == [available |-> FALSE, config |-> NoProfile]

\* the plugin manager holding `prof` for KnownType; NoProfile when the plugin
\* was not loaded
Registry(prof) == [available |-> TRUE, config |-> prof]

\* PluginManager.has_plugin: device_type in self._plugins
has_plugin(reg, d) == d = KnownType /\ reg.config.present

\* PluginManager.get_device_config: self._plugins.get(device_type)
get_device_config(reg, d) == IF has_plugin(reg, d) THEN reg.config ELSE NoProfile

\* a lookup that answers an unknown device type with the profile it holds
device_config_any_type(reg, d) ==
    IF ~reg.available THEN NoProfile ELSE reg.config

\* lines 61-66 of _apply_plugin_command_params: no plugin manager, no plugin
\* for the device type or an empty configuration give no profile
device_config(reg, d) ==
    IF ~reg.available \/ ~has_plugin(reg, d) THEN NoProfile
    ELSE get_device_config(reg, d)

\* a resolver that writes the effective values into the caller's object
Resolve_in_place ==
    /\ rpc = "input"
    /\ UNCHANGED nonResolverVars
    /\ profile' = device_config(plugins, device_type)
    /\ resolved' = apply_plugin_command_params(cmd, device_config(plugins, device_type))
    /\ cmd' = resolved'
    /\ rpc' = "resolved"
    /\ UNCHANGED <<device_type, plugins, resolved_again, sent>>

\* the call: resolved = self._apply_plugin_command_params(ssh_command, device_type);
\* the caller's object is read (ssh_command.dict() is a copy) and a new
\* SSHCommand is returned; the lookups read self._plugins
Resolve ==
    /\ rpc = "input"
    /\ UNCHANGED nonResolverVars
    /\ profile' = device_config(plugins, device_type)
    /\ resolved' = apply_plugin_command_params(cmd, device_config(plugins, device_type))
    /\ rpc' = "resolved"
    /\ UNCHANGED <<cmd, device_type, plugins, resolved_again, sent>>

\* the resolver called on its own result, for the same device type
ResolveAgain ==
    /\ rpc = "resolved"
    /\ UNCHANGED nonResolverVars
    /\ resolved_again' =
          apply_plugin_command_params(resolved, device_config(plugins, device_type))
    /\ rpc' = "again"
    /\ UNCHANGED <<cmd, device_type, plugins, profile, resolved, sent>>

\* the floor of delay_factor when no expect_string is given, 3.0 in tenths
min_delay_factor == 30

\* the floor of max_loops when no expect_string is given
min_max_loops == 1000

Max(a, b) == IF a >= b THEN a ELSE b

NoSend == [expect_string |-> "None", delay_factor |-> 0, max_loops |-> 0,
           auto_find_prompt |-> FALSE]

\* the keyword arguments of the two send_command calls of execute_command
\* (lines 211-229): with an expect_string the effective values, without one
\* max(delay_factor, 3.0) and max(max_loops, 1000) and auto_find_prompt
send_command_args(c) ==
    IF c.expect_string \notin {"None", ""}
    THEN [expect_string |-> c.expect_string, delay_factor |-> c.delay_factor,
          max_loops |-> c.max_loops, auto_find_prompt |-> FALSE]
    ELSE [expect_string |-> "None",
          delay_factor |-> Max(c.delay_factor, min_delay_factor),
          max_loops |-> Max(c.max_loops, min_max_loops),
          auto_find_prompt |-> TRUE]

\* execute_command after the resolver call: self.connection.send_command(...)
Send ==
    /\ rpc = "resolved"
    /\ UNCHANGED nonResolverVars
    /\ sent' = send_command_args(resolved)
    /\ rpc' = "sent"
    /\ UNCHANGED <<cmd, device_type, plugins, profile, resolved, resolved_again>>

ResolverIdle ==
    /\ cmd = [command |-> <<>>, expect_string |-> "None",
              delay_factor |-> default_delay_factor, max_loops |-> default_max_loops]
    /\ device_type = KnownType
    /\ plugins = NoRegistry
    /\ profile = NoProfile
    /\ resolved = cmd
    /\ resolved_again = cmd
    /\ sent = NoSend
    /\ rpc = "idle"

\* ======================================================================
\* SSHCredentials: construction, and the validation connect() runs on it
\* ======================================================================

\* how a keyword argument of SSHCredentials(...) can arrive
ArgStates == {"missing", "empty", "set"}

CredentialArgs ==
    [host : ArgStates, username : ArgStates, password : ArgStates,
     private_key : ArgStates]

\* Python truthiness of a str / Optional[str] field: None and "" are false
truthy(v) == v = "set"

\* pydantic construction of SSHCredentials: host and username are required
\* (Field(...)), of type str, so "" passes; password and private_key are
\* Optional with default None; the class has no validator
SSHCredentials_init(args) ==
    IF args.host = "missing" \/ args.username = "missing" THEN "ValidationError"
    ELSE "constructed"

\* utils.validate_ssh_params(host, username, password, private_key)
validate_ssh_params(args) ==
    IF ~truthy(args.host) \/ ~truthy(args.username) THEN FALSE
    ELSE IF ~truthy(args.password) /\ ~truthy(args.private_key) THEN FALSE
    ELSE TRUE

\* SSHCredentials(**kwargs)
Construct ==
    /\ credsOut = "none"
    /\ UNCHANGED nonCredsVars
    /\ credsOut' = SSHCredentials_init(credsIn)
    /\ UNCHANGED <<credsIn, credsChecked>>

\* the check at the head of SSHCollector.connect(credentials)
Validate ==
    /\ credsOut = "constructed"
    /\ credsChecked = "none"
    /\ UNCHANGED nonCredsVars
    /\ credsChecked' = IF validate_ssh_params(credsIn) THEN "valid" ELSE "invalid"
    /\ UNCHANGED <<credsIn, credsOut>>

CredsIdle ==
    /\ credsIn = [host |-> "set", username |-> "set", password |-> "set",
                  private_key |-> "missing"]
    /\ credsOut = "none"
    /\ credsChecked = "none"

\* ======================================================================
\* ThreadPoolManager: start, stop, submit_task and the tasks they dispatch
\* ======================================================================

PoolTasks == 1..MaxPoolTasks

\* settings.max_concurrent_threads, also thread_pool_manager.max_workers
max_concurrent_threads == 2

\* `if not self.enabled or len(tasks) <= 1`: the pool runs the batch serially
pool_runs_serially(enabled, n) == ~enabled \/ n <= 1

\* a task function is running in a worker thread of self._executor
executing(st) == st \in {"connect", "command", "sleep"}

\* future.done(): finished or cancelled
future_done(st) == st \in {"done", "cancelled"}

\* future.cancel(): only a future that has not started is cancelled
future_cancel(st) == IF st = "queued" THEN "cancelled" ELSE st

\* start() called by the client thread
ClientStart ==
    /\ p_client = "idle"
    /\ p_startCalls < 1
    /\ UNCHANGED nonPoolVars
    /\ p_client' = "start_wait"
    /\ p_nested' = FALSE
    /\ p_startCalls' = p_startCalls + 1
    /\ UNCHANGED <<p_max_workers, p_local, p_batches, p_observer, p_obs_task, p_obs_calls,
                   p_access, p_enabled, p_executor, p_lock, p_active, p_status, p_attempt, p_next,
                   p_ret, p_stopper, p_stops, p_atStop, p_lateConnect, p_batch>>

\* thread_pool_manager.py 35: `with self._lock` of start(); threading.Lock is
\* not reentrant, the thread waits while anyone, itself included, holds it
StartAcquire ==
    /\ p_client = "start_wait"
    /\ p_lock = "free"
    /\ UNCHANGED nonPoolVars
    /\ p_lock' = "client"
    /\ p_client' = "start_locked"
    /\ UNCHANGED <<p_max_workers, p_local, p_batches, p_observer, p_obs_task, p_obs_calls,
                   p_access, p_enabled, p_executor, p_active, p_status, p_attempt, p_nested,
                   p_next, p_startCalls, p_ret, p_stopper, p_stops, p_atStop,
                   p_lateConnect, p_batch>>

\* lines 36-41: allocate the executor if there is none, leave the with block
StartBody ==
    /\ p_client = "start_locked"
    /\ UNCHANGED nonPoolVars
    /\ p_executor' = IF p_executor = "none" /\ p_enabled THEN "alloc" ELSE p_executor
    /\ p_lock' = "free"
    /\ p_client' = IF p_nested THEN "submit_after_start" ELSE "idle"
    /\ p_nested' = FALSE
    /\ UNCHANGED <<p_max_workers, p_local, p_batches, p_observer, p_obs_task, p_obs_calls,
                   p_access, p_enabled, p_active, p_status, p_attempt, p_next, p_startCalls,
                   p_ret, p_stopper, p_stops, p_atStop, p_lateConnect, p_batch>>

\* lines 74-76: submit_task on a pool that is not enabled returns None at once
SubmitCall ==
    /\ p_client = "idle"
    /\ p_next \in PoolTasks
    /\ UNCHANGED nonPoolVars
    /\ IF ~p_enabled
       THEN /\ p_ret' = [p_ret EXCEPT ![p_next] = "None"]
            /\ p_next' = p_next + 1
            /\ p_client' = "idle"
       ELSE /\ p_client' = "submit_wait"
            /\ UNCHANGED <<p_ret, p_next>>
    /\ UNCHANGED <<p_max_workers, p_local, p_batches, p_observer, p_obs_task, p_obs_calls,
                   p_access, p_enabled, p_executor, p_lock, p_active, p_status, p_attempt,
                   p_nested, p_startCalls, p_stopper, p_stops, p_atStop,
                   p_lateConnect, p_batch>>

\* line 78: `with self._lock` of submit_task
SubmitAcquire ==
    /\ p_client = "submit_wait"
    /\ p_lock = "free"
    /\ UNCHANGED nonPoolVars
    /\ p_lock' = "client"
    /\ p_client' = "submit_locked"
    /\ UNCHANGED <<p_max_workers, p_local, p_batches, p_observer, p_obs_task, p_obs_calls,
                   p_access, p_enabled, p_executor, p_active, p_status, p_attempt, p_nested,
                   p_next, p_startCalls, p_ret, p_stopper, p_stops, p_atStop,
                   p_lateConnect, p_batch>>

\* lines 79-89, the lock held: without an executor self.start() is called
\* first; with one the task is submitted and registered, else None is returned
SubmitBody ==
    /\ p_client \in {"submit_locked", "submit_after_start"}
    /\ UNCHANGED nonPoolVars
    /\ IF p_client = "submit_locked" /\ p_executor = "none"
       THEN /\ p_client' = "start_wait"
            /\ p_nested' = TRUE
            /\ UNCHANGED <<p_status, p_attempt, p_active, p_ret, p_next, p_lock>>
       ELSE /\ p_client' = "idle"
            /\ p_nested' = FALSE
            /\ p_lock' = "free"
            /\ p_next' = p_next + 1
            /\ IF p_executor = "alloc"
               THEN /\ p_status' = [p_status EXCEPT ![p_next] = "queued"]
                    /\ p_attempt' = [p_attempt EXCEPT ![p_next] = 0]
                    /\ p_active' = p_active \cup {p_next}
                    /\ p_ret' = [p_ret EXCEPT ![p_next] = "future"]
               ELSE /\ p_ret' = [p_ret EXCEPT ![p_next] = "None"]
                    /\ UNCHANGED <<p_status, p_attempt, p_active>>
    /\ UNCHANGED <<p_max_workers, p_local, p_batches, p_observer, p_obs_task, p_obs_calls,
                   p_enabled, p_executor, p_startCalls, p_stopper, p_stops, p_atStop,
                   p_lateConnect, p_batch>>
    /\ p_access' = IF p_client = "submit_after_start" \/ p_executor = "alloc"
                 THEN [thread |-> "client", method |-> "submit_task", kind |-> "insert",
                      locked |-> p_lock = "client"]
                 ELSE p_access

\* stop() called by the stopping thread
StopCall ==
    /\ p_stopper = "idle"
    /\ p_stops < MaxStops
    /\ UNCHANGED nonPoolVars
    /\ p_stopper' = "stop_wait"
    /\ UNCHANGED <<p_max_workers, p_local, p_batches, p_observer, p_obs_task, p_obs_calls,
                   p_access, p_enabled, p_executor, p_lock, p_active, p_status, p_attempt,
                   p_client, p_nested, p_next, p_startCalls, p_ret, p_stops, p_atStop,
                   p_lateConnect, p_batch>>

\* line 45: `with self._lock` of stop()
StopAcquire ==
    /\ p_stopper = "stop_wait"
    /\ p_lock = "free"
    /\ UNCHANGED nonPoolVars
    /\ p_lock' = "stopper"
    /\ p_stopper' = "stop_locked"
    /\ UNCHANGED <<p_max_workers, p_local, p_batches, p_observer, p_obs_task, p_obs_calls,
                   p_access, p_enabled, p_executor, p_active, p_status, p_attempt, p_client,
                   p_nested, p_next, p_startCalls, p_ret, p_stops, p_atStop,
                   p_lateConnect, p_batch>>

\* lines 46-56: nothing to do without an executor; else every registered future
\* that is not done is cancelled and shutdown(wait=True) is entered
StopBody ==
    /\ p_stopper = "stop_locked"
    /\ UNCHANGED nonPoolVars
    /\ IF p_executor = "none"
       THEN /\ p_lock' = "free"
            /\ p_stopper' = "idle"
            /\ p_stops' = p_stops + 1
            /\ UNCHANGED <<p_status, p_atStop>>
       ELSE /\ p_status' = [i \in PoolTasks |->
                               IF i \in p_active THEN future_cancel(p_status[i])
                               ELSE p_status[i]]
            /\ p_atStop' = [i \in PoolTasks |->
                               IF executing(p_status[i]) THEN p_status[i] ELSE p_atStop[i]]
            /\ p_stopper' = "shutdown"
            /\ UNCHANGED <<p_lock, p_stops>>
    /\ UNCHANGED <<p_max_workers, p_local, p_batches, p_observer, p_obs_task, p_obs_calls,
                   p_enabled, p_executor, p_active, p_attempt, p_client, p_nested,
                   p_next, p_startCalls, p_ret, p_lateConnect, p_batch>>
    /\ p_access' = IF p_executor # "none"
                 THEN [thread |-> "stopper", method |-> "stop", kind |-> "enumerate",
                      locked |-> p_lock = "stopper"]
                 ELSE p_access

\* lines 56-59: shutdown(wait=True) returns when the worker threads have ended,
\* i.e. no task is queued or executing; the executor and the registry are dropped
StopShutdown ==
    /\ p_stopper = "shutdown"
    /\ \A i \in PoolTasks : p_status[i] # "queued" /\ ~executing(p_status[i])
    /\ UNCHANGED nonPoolVars
    /\ p_executor' = "none"
    /\ p_active' = {}
    /\ p_lock' = "free"
    /\ p_stopper' = "idle"
    /\ p_stops' = p_stops + 1
    /\ UNCHANGED <<p_max_workers, p_local, p_batches, p_observer, p_obs_task, p_obs_calls,
                   p_enabled, p_status, p_attempt, p_client, p_nested, p_next,
                   p_startCalls, p_ret, p_atStop, p_lateConnect, p_batch>>
    /\ p_access' = [thread |-> "stopper", method |-> "stop", kind |-> "remove",
                    locked |-> p_lock = "stopper"]

\* a worker thread takes a queued task: collect_with_retry begins, first connect
PoolTaskStart(i) ==
    /\ p_status[i] = "queued"
    /\ UNCHANGED nonPoolVars
    /\ p_status' = [p_status EXCEPT ![i] = "connect"]
    /\ UNCHANGED <<p_max_workers, p_local, p_batches, p_observer, p_obs_task, p_obs_calls,
                   p_access, p_enabled, p_executor, p_lock, p_active, p_attempt, p_client,
                   p_nested, p_next, p_startCalls, p_ret, p_stopper, p_stops, p_atStop,
                   p_lateConnect, p_batch>>

\* ssh_core.py 311-314: connect returned, the commands are being executed
PoolConnectOk(i) ==
    /\ p_status[i] = "connect"
    /\ UNCHANGED nonPoolVars
    /\ p_status' = [p_status EXCEPT ![i] = "command"]
    /\ UNCHANGED <<p_max_workers, p_local, p_batches, p_observer, p_obs_task, p_obs_calls,
                   p_access, p_enabled, p_executor, p_lock, p_active, p_attempt, p_client,
                   p_nested, p_next, p_startCalls, p_ret, p_stopper, p_stops, p_atStop,
                   p_lateConnect, p_batch>>

\* ssh_core.py 355-366: connect raised; disconnect, then sleep if an attempt is
\* left, else the task function returns the failure
PoolConnectFail(i) ==
    /\ p_status[i] = "connect"
    /\ UNCHANGED nonPoolVars
    /\ p_status' = [p_status EXCEPT ![i] =
                       IF retry_follows(p_attempt[i], MaxPoolRetry) THEN "sleep"
                       ELSE "done"]
    /\ UNCHANGED <<p_max_workers, p_local, p_batches, p_observer, p_obs_task, p_obs_calls,
                   p_access, p_enabled, p_executor, p_lock, p_active, p_attempt, p_client,
                   p_nested, p_next, p_startCalls, p_ret, p_stopper, p_stops, p_atStop,
                   p_lateConnect, p_batch>>

\* time.sleep returned: the next attempt begins with a connect. Nothing in the
\* loop looks at the pool or at the future.
PoolWake(i) ==
    /\ p_status[i] = "sleep"
    /\ UNCHANGED nonPoolVars
    /\ p_status' = [p_status EXCEPT ![i] = "connect"]
    /\ p_attempt' = [p_attempt EXCEPT ![i] = p_attempt[i] + 1]
    /\ p_lateConnect' = [p_lateConnect EXCEPT ![i] =
                            p_lateConnect[i] \/ p_atStop[i] \in {"sleep", "connect"}]
    /\ UNCHANGED <<p_max_workers, p_local, p_batches, p_observer, p_obs_task, p_obs_calls,
                   p_access, p_enabled, p_executor, p_lock, p_active, p_client, p_nested, p_next,
                   p_startCalls, p_ret, p_stopper, p_stops, p_atStop, p_batch>>

\* ssh_core.py 317-353: the commands ended; disconnect and return the result
PoolCommandsDone(i) ==
    /\ p_status[i] = "command"
    /\ UNCHANGED nonPoolVars
    /\ p_status' = [p_status EXCEPT ![i] = "done"]
    /\ UNCHANGED <<p_max_workers, p_local, p_batches, p_observer, p_obs_task, p_obs_calls,
                   p_access, p_enabled, p_executor, p_lock, p_active, p_attempt, p_client,
                   p_nested, p_next, p_startCalls, p_ret, p_stopper, p_stops, p_atStop,
                   p_lateConnect, p_batch>>

\* the sizes of the batches handed to execute_tasks_parallel
BatchSizes == 0..2

\* a batch that runs its tasks on the pool's own executor, allocating it
PoolBatchBegin_on_pool_executor ==
    /\ p_batch # "running"
    /\ p_batches < MaxBatches
    /\ UNCHANGED nonPoolVars
    /\ \E n \in BatchSizes :
          p_executor' = IF pool_runs_serially(p_enabled, n) THEN p_executor ELSE "alloc"
    /\ p_batch' = "running"
    /\ p_batches' = p_batches + 1
    /\ UNCHANGED <<p_enabled, p_lock, p_active, p_status, p_attempt, p_local,
                   p_client, p_nested, p_next, p_startCalls, p_ret, p_stopper, p_stops,
                   p_atStop, p_lateConnect, p_max_workers, p_observer, p_obs_task,
                   p_obs_calls, p_access>>

\* thread_pool_manager.py 105-131: another thread calls execute_tasks_parallel.
\* A disabled pool or a batch of at most one task runs in the calling thread;
\* else the tasks run on a ThreadPoolExecutor local to the call. self.enabled
\* and self.max_workers are read, nothing of the pool is written.
PoolBatchBegin ==
    /\ p_batch # "running"
    /\ p_batches < MaxBatches
    /\ UNCHANGED nonPoolVars
    /\ \E n \in BatchSizes :
          p_local' = IF pool_runs_serially(p_enabled, n) THEN "none" ELSE "alloc"
    /\ p_batch' = "running"
    /\ p_batches' = p_batches + 1
    /\ UNCHANGED <<p_enabled, p_executor, p_lock, p_active, p_status, p_attempt,
                   p_client, p_nested, p_next, p_startCalls, p_ret, p_stopper, p_stops,
                   p_atStop, p_lateConnect, p_max_workers, p_observer, p_obs_task,
                   p_obs_calls, p_access>>

\* execute_tasks_parallel ends: the serial loop returns its results (line 121);
\* the with block of the parallel path shuts the local executor down and the
\* results are returned (line 153) or the TimeoutError of as_completed leaves
\* the call (line 136)
PoolBatchEnd ==
    /\ p_batch = "running"
    /\ UNCHANGED nonPoolVars
    /\ \E outcome \in {"finished", "failed"} :
          /\ outcome = "failed" => p_local = "alloc"
          /\ p_batch' = outcome
    /\ p_local' = "none"
    /\ UNCHANGED <<p_enabled, p_executor, p_lock, p_active, p_status, p_attempt,
                   p_client, p_nested, p_next, p_startCalls, p_ret, p_stopper, p_stops,
                   p_atStop, p_lateConnect, p_max_workers, p_batches, p_observer,
                   p_obs_task, p_obs_calls, p_access>>

NoAccess == [thread |-> "none", method |-> "none", kind |-> "none", locked |-> FALSE]

\* one access of the observer thread to self._active_tasks
observer_access(method, kind) ==
    [thread |-> "observer", method |-> method, kind |-> kind,
     locked |-> p_lock = "observer"]

\* lines 166-168 of wait_for_task: self._active_tasks.get(task_id), no lock
\* taken; an unknown task raises ValueError
ObsWaitCall(i) ==
    /\ p_observer = "idle"
    /\ p_obs_calls < MaxObsCalls
    /\ UNCHANGED nonPoolVars
    /\ p_access' = observer_access("wait_for_task", "lookup")
    /\ p_observer' = IF i \in p_active THEN "wait_result" ELSE "idle"
    /\ p_obs_task' = i
    /\ p_obs_calls' = p_obs_calls + 1
    /\ UNCHANGED <<p_enabled, p_executor, p_lock, p_active, p_status, p_attempt,
                   p_client, p_nested, p_next, p_startCalls, p_ret, p_stopper, p_stops,
                   p_atStop, p_lateConnect, p_batch, p_max_workers, p_local, p_batches>>

\* lines 170-178: future.result(timeout) returns the result of a finished task
\* and the entry is to be removed; a timeout, a cancelled future or an
\* exception of the task is re-raised and the entry stays
ObsWaitResult ==
    /\ p_observer = "wait_result"
    /\ UNCHANGED nonPoolVars
    /\ \/ /\ p_status[p_obs_task] = "done"
          /\ p_observer' = "pop_wait"
       \/ p_observer' = "idle"
    /\ UNCHANGED <<p_enabled, p_executor, p_lock, p_active, p_status, p_attempt,
                   p_client, p_nested, p_next, p_startCalls, p_ret, p_stopper, p_stops,
                   p_atStop, p_lateConnect, p_batch, p_max_workers, p_local, p_batches,
                   p_obs_task, p_obs_calls, p_access>>

\* lines 190-194 of cancel_task: self._active_tasks.get(task_id), no lock taken,
\* then future.cancel(); the entry is to be removed if that returned True
ObsCancelCall(i) ==
    /\ p_observer = "idle"
    /\ p_obs_calls < MaxObsCalls
    /\ UNCHANGED nonPoolVars
    /\ p_access' = observer_access("cancel_task", "lookup")
    /\ p_status' = IF i \in p_active
                   THEN [p_status EXCEPT ![i] = future_cancel(p_status[i])]
                   ELSE p_status
    /\ p_observer' = IF i \in p_active /\ future_cancel(p_status[i]) = "cancelled"
                     THEN "pop_wait" ELSE "idle"
    /\ p_obs_task' = i
    /\ p_obs_calls' = p_obs_calls + 1
    /\ UNCHANGED <<p_enabled, p_executor, p_lock, p_active, p_attempt,
                   p_client, p_nested, p_next, p_startCalls, p_ret, p_stopper, p_stops,
                   p_atStop, p_lateConnect, p_batch, p_max_workers, p_local, p_batches>>

\* a removal that does not take the lock
ObsPopAcquire_unlocked ==
    /\ p_observer = "pop_wait"
    /\ UNCHANGED nonPoolVars
    /\ p_observer' = "pop_locked"
    /\ UNCHANGED <<p_enabled, p_executor, p_lock, p_active, p_status, p_attempt,
                   p_client, p_nested, p_next, p_startCalls, p_ret, p_stopper, p_stops,
                   p_atStop, p_lateConnect, p_batch, p_max_workers, p_local, p_batches,
                   p_obs_task, p_obs_calls, p_access>>

\* lines 173 and 196: `with self._lock` before the pop
ObsPopAcquire ==
    /\ p_observer = "pop_wait"
    /\ p_lock = "free"
    /\ UNCHANGED nonPoolVars
    /\ p_lock' = "observer"
    /\ p_observer' = "pop_locked"
    /\ UNCHANGED <<p_enabled, p_executor, p_active, p_status, p_attempt,
                   p_client, p_nested, p_next, p_startCalls, p_ret, p_stopper, p_stops,
                   p_atStop, p_lateConnect, p_batch, p_max_workers, p_local, p_batches,
                   p_obs_task, p_obs_calls, p_access>>

\* lines 174 and 197: self._active_tasks.pop(task_id, None), the with block ends
ObsPop ==
    /\ p_observer = "pop_locked"
    /\ UNCHANGED nonPoolVars
    /\ p_active' = p_active \ {p_obs_task}
    /\ p_access' = observer_access("pop", "remove")
    /\ p_lock' = IF p_lock = "observer" THEN "free" ELSE p_lock
    /\ p_observer' = "idle"
    /\ UNCHANGED <<p_enabled, p_executor, p_status, p_attempt,
                   p_client, p_nested, p_next, p_startCalls, p_ret, p_stopper, p_stops,
                   p_atStop, p_lateConnect, p_batch, p_max_workers, p_local, p_batches,
                   p_obs_task, p_obs_calls>>

\* get_status() or get_active_task_count() called
ObsStatusCall ==
    /\ p_observer = "idle"
    /\ p_obs_calls < MaxObsCalls
    /\ UNCHANGED nonPoolVars
    /\ p_observer' = "status_wait"
    /\ p_obs_calls' = p_obs_calls + 1
    /\ UNCHANGED <<p_enabled, p_executor, p_lock, p_active, p_status, p_attempt,
                   p_client, p_nested, p_next, p_startCalls, p_ret, p_stopper, p_stops,
                   p_atStop, p_lateConnect, p_batch, p_max_workers, p_local, p_batches,
                   p_obs_task, p_access>>

\* lines 204 and 209: `with self._lock`
ObsStatusAcquire ==
    /\ p_observer = "status_wait"
    /\ p_lock = "free"
    /\ UNCHANGED nonPoolVars
    /\ p_lock' = "observer"
    /\ p_observer' = "status_locked"
    /\ UNCHANGED <<p_enabled, p_executor, p_active, p_status, p_attempt,
                   p_client, p_nested, p_next, p_startCalls, p_ret, p_stopper, p_stops,
                   p_atStop, p_lateConnect, p_batch, p_max_workers, p_local, p_batches,
                   p_obs_task, p_obs_calls, p_access>>

\* lines 205 and 210-218: the futures of self._active_tasks are enumerated and
\* counted, the with block ends
ObsStatus ==
    /\ p_observer = "status_locked"
    /\ UNCHANGED nonPoolVars
    /\ p_access' = observer_access("get_status", "enumerate")
    /\ p_lock' = "free"
    /\ p_observer' = "idle"
    /\ UNCHANGED <<p_enabled, p_executor, p_active, p_status, p_attempt,
                   p_client, p_nested, p_next, p_startCalls, p_ret, p_stopper, p_stops,
                   p_atStop, p_lateConnect, p_batch, p_max_workers, p_local, p_batches,
                   p_obs_task, p_obs_calls>>

PoolIdle ==
    /\ p_enabled = TRUE
    /\ p_executor = "none"
    /\ p_lock = "free"
    /\ p_active = {}
    /\ p_status = [i \in PoolTasks |-> "none"]
    /\ p_attempt = [i \in PoolTasks |-> 0]
    /\ p_client = "idle"
    /\ p_nested = FALSE
    /\ p_next = MaxPoolTasks + 1
    /\ p_startCalls = 1
    /\ p_ret = [i \in PoolTasks |-> "none"]
    /\ p_stopper = "idle"
    /\ p_stops = MaxStops
    /\ p_atStop = [i \in PoolTasks |-> "none"]
    /\ p_lateConnect = [i \in PoolTasks |-> FALSE]
    /\ p_batch = "finished"
    /\ p_max_workers = max_concurrent_threads
    /\ p_local = "none"
    /\ p_batches = MaxBatches
    /\ p_observer = "idle"
    /\ p_obs_task = 1
    /\ p_obs_calls = MaxObsCalls
    /\ p_access = NoAccess

\* ======================================================================
\* PluginManager: _load_plugins, reload_plugins and the lookups
\* ======================================================================

FileKinds == {"good", "raises", "no_config", "unreadable"}

FileLists == UNION {[1..n -> FileKinds] : n \in 0..MaxFiles}

NoLookup == [made |-> FALSE, table |-> {}]

\* a loop body without the try block: the exception leaves _load_plugins
load_entry_unguarded(kind) ==
    IF kind = "good" THEN "register"
    ELSE IF kind = "no_config" THEN "skip"
    ELSE "abort"

\* plugin_manager.py 46-64, the body of the for loop for one file: a module
\* with DEVICE_CONFIG is registered, one without is skipped with a warning, and
\* whatever is raised while reading or executing the file is caught and logged
load_entry(kind) ==
    IF kind = "good" THEN "register"
    ELSE "skip"

\* PluginManager(plugin_dir): self._plugins = {} and the loop begins
LoadBegin ==
    /\ g_pc = "new"
    /\ UNCHANGED nonRegistryVars
    /\ g_plugins' = {}
    /\ g_idx' = 1
    /\ g_pc' = "loading"
    /\ UNCHANGED <<g_files, g_reloads, g_seen>>

\* one iteration of the for loop of _load_plugins
LoadEntry ==
    /\ g_pc = "loading"
    /\ g_idx <= Len(g_files)
    /\ UNCHANGED nonRegistryVars
    /\ g_plugins' = IF load_entry(g_files[g_idx]) = "register"
                    THEN g_plugins \cup {g_idx} ELSE g_plugins
    /\ g_pc' = IF load_entry(g_files[g_idx]) = "abort" THEN "raised" ELSE "loading"
    /\ g_idx' = g_idx + 1
    /\ UNCHANGED <<g_files, g_reloads, g_seen>>

\* the for loop is exhausted: _load_plugins returns
LoadEnd ==
    /\ g_pc = "loading"
    /\ g_idx > Len(g_files)
    /\ UNCHANGED nonRegistryVars
    /\ g_pc' = "ready"
    /\ UNCHANGED <<g_files, g_plugins, g_idx, g_reloads, g_seen>>

\* reload_plugins, lines 92-93: self._plugins.clear(), then _load_plugins begins
ReloadCall ==
    /\ g_pc = "ready"
    /\ g_reloads < MaxReloads
    /\ UNCHANGED nonRegistryVars
    /\ g_plugins' = {}
    /\ g_idx' = 1
    /\ g_pc' = "loading"
    /\ g_reloads' = g_reloads + 1
    /\ UNCHANGED <<g_files, g_seen>>

\* has_plugin / get_device_config / list_plugins called by another thread once
\* the manager exists: it reads self._plugins as it is, no lock is taken
Lookup ==
    /\ g_pc = "ready" \/ (g_pc = "loading" /\ g_reloads > 0)
    /\ UNCHANGED nonRegistryVars
    /\ g_seen' = [made |-> TRUE, table |-> g_plugins]
    /\ UNCHANGED <<g_files, g_plugins, g_pc, g_idx, g_reloads>>

RegistryIdle ==
    /\ g_files = <<>>
    /\ g_plugins = {}
    /\ g_pc = "idle"
    /\ g_idx = 1
    /\ g_reloads = 0
    /\ g_seen = NoLookup

\* ======================================================================
\* SSHCollector as a session: connect, execute_commands, disconnect
\* ======================================================================

NoCall == [call |-> "none", outcome |-> "none", ops |-> 0, close_error |-> FALSE]

CommandPlans == UNION {[1..n -> {"ok", "fail", "escape"}] : n \in 0..MaxSessCmds}

\* outcomes of one connect call: "invalid" is the credentials check, the others
\* are what ConnectHandler does
SessionConnectOutcomes == {"invalid", "ok"} \cup ConnectFailures

\* connect(credentials), lines 106-195. self.connection is assigned only when
\* ConnectHandler returned; no branch looks at, closes or clears the connection
\* the instance already holds.
SessionConnect ==
    /\ s_pc = "idle"
    /\ s_calls < MaxCalls
    /\ UNCHANGED nonSessionVars
    /\ \E outcome \in SessionConnectOutcomes :
          IF outcome = "ok"
          THEN /\ s_conn' = s_opened + 1
               /\ s_live' = s_live \cup {s_opened + 1}
               /\ s_opened' = s_opened + 1
               /\ s_last' = [call |-> "connect", outcome |-> "returned", ops |-> 1,
                             close_error |-> FALSE]
          ELSE /\ UNCHANGED <<s_conn, s_live, s_opened>>
               /\ s_last' = [call |-> "connect", outcome |-> "raised",
                             ops |-> network_opened(outcome), close_error |-> FALSE]
    /\ s_prev' = s_conn
    /\ s_calls' = s_calls + 1
    /\ UNCHANGED <<s_pc, s_plan, s_sent, s_results>>

\* a disconnect that lets the error of the transport's close escape and keeps
\* the handle
session_disconnect_unguarded(conn, close_raises) ==
    IF conn = 0 THEN [conn |-> 0, outcome |-> "returned", ops |-> 0]
    ELSE IF close_raises THEN [conn |-> conn, outcome |-> "raised", ops |-> 1]
    ELSE [conn |-> 0, outcome |-> "returned", ops |-> 1]

\* disconnect(), lines 271-281: with a connection, one close of the transport,
\* its error logged, self.connection = None in the finally block; without a
\* connection nothing is done
session_disconnect(conn, close_raises) ==
    IF conn = 0 THEN [conn |-> 0, outcome |-> "returned", ops |-> 0]
    ELSE [conn |-> 0, outcome |-> "returned", ops |-> 1]

\* disconnect() called on the instance. A close that raises may or may not have
\* released the transport.
SessionDisconnect ==
    /\ s_pc = "idle"
    /\ s_calls < MaxCalls
    /\ UNCHANGED nonSessionVars
    /\ \E close_raises, released \in BOOLEAN :
          LET d == session_disconnect(s_conn, close_raises) IN
          /\ s_conn' = d.conn
          /\ s_live' = IF s_conn # 0 /\ (~close_raises \/ released)
                       THEN s_live \ {s_conn} ELSE s_live
          /\ s_last' = [call |-> "disconnect", outcome |-> d.outcome, ops |-> d.ops,
                        close_error |-> (s_conn # 0 /\ close_raises)]
    /\ s_prev' = s_conn
    /\ s_calls' = s_calls + 1
    /\ UNCHANGED <<s_opened, s_pc, s_plan, s_sent, s_results>>

\* execute_commands(commands), lines 252-258: rejected without a connection,
\* else the loop begins with an empty result list
SessionExecuteCall ==
    /\ s_pc = "idle"
    /\ s_calls < MaxCalls
    /\ UNCHANGED nonSessionVars
    /\ \E plan \in CommandPlans :
          /\ s_plan' = plan
          /\ IF s_conn = 0
             THEN /\ s_last' = [call |-> "execute_commands", outcome |-> "rejected",
                                ops |-> 0, close_error |-> FALSE]
                  /\ s_pc' = "idle"
             ELSE /\ s_last' = [call |-> "execute_commands", outcome |-> "running",
                                ops |-> 0, close_error |-> FALSE]
                  /\ s_pc' = "executing"
    /\ s_sent' = <<>>
    /\ s_results' = <<>>
    /\ s_prev' = s_conn
    /\ s_calls' = s_calls + 1
    /\ UNCHANGED <<s_conn, s_live, s_opened>>

\* what one execute_command call does to the loop: a loop that stops at the
\* first failed command
execute_step_aborting(kind) ==
    IF kind = "ok" THEN "append_ok"
    ELSE "raise"

\* what one execute_command call does to the loop (lines 198-249, 260-267):
\* send_command returning gives a success entry, send_command raising gives an
\* entry with success = False and an error, and an exception raised before the
\* try block (lines 200-205) leaves execute_command and execute_commands
execute_step(kind) ==
    IF kind = "ok" THEN "append_ok"
    ELSE IF kind = "fail" THEN "append_failed"
    ELSE "raise"

\* one iteration of the for loop of execute_commands
SessionExecuteCommand ==
    /\ s_pc = "executing"
    /\ Len(s_results) < Len(s_plan)
    /\ UNCHANGED nonSessionVars
    /\ LET k == Len(s_results) + 1
           step == execute_step(s_plan[k]) IN
       IF step = "raise"
       THEN /\ s_last' = [s_last EXCEPT !.outcome = "raised"]
            /\ s_pc' = "idle"
            /\ UNCHANGED <<s_sent, s_results>>
       ELSE /\ s_sent' = Append(s_sent, k)
            /\ s_results' = Append(s_results,
                                   [command |-> k, success |-> step = "append_ok",
                                    error |-> step = "append_failed"])
            /\ s_last' = [s_last EXCEPT !.ops = s_last.ops + 1]
            /\ UNCHANGED s_pc
    /\ UNCHANGED <<s_conn, s_live, s_opened, s_calls, s_prev, s_plan>>

\* the loop is exhausted: `return results`
SessionExecuteReturn ==
    /\ s_pc = "executing"
    /\ Len(s_results) = Len(s_plan)
    /\ UNCHANGED nonSessionVars
    /\ s_last' = [s_last EXCEPT !.outcome = "returned"]
    /\ s_pc' = "idle"
    /\ UNCHANGED <<s_conn, s_live, s_opened, s_calls, s_prev, s_plan, s_sent, s_results>>

SessionIdle ==
    /\ s_conn = 0
    /\ s_live = {}
    /\ s_opened = 0
    /\ s_calls = 0
    /\ s_prev = 0
    /\ s_last = NoCall
    /\ s_pc = "off"
    /\ s_plan = <<>>
    /\ s_sent = <<>>
    /\ s_results = <<>>

\* ======================================================================
\* TaskProcessor.process_collection_task and RabbitMQConsumer._message_callback
\* ======================================================================

ProcThreads == {1, 2}

\* the task ids of the messages; 0 stands for a message without task_id
ProcTaskIds == {1, 2}

\* how the body of the try block of process_collection_task can end: the
\* result of collect_with_retry, or an exception (a ValidationError of
\* SSHCredentials / SSHCommand / CollectionTask, an exception of the collector)
ExecutionOutcomes == {"success", "failure", "error"}

\* lines 35-37: task_data.get("task_id"); a missing or empty id raises
\* ValueError, which the outer except turns into a failure result
ProcCall(t) ==
    /\ q_pc[t] = "idle"
    /\ q_calls < MaxProcCalls
    /\ UNCHANGED <<nonMqVars, consumerVars>>
    /\ \E id \in ProcTaskIds \cup {0} :
          /\ q_task' = [q_task EXCEPT ![t] = id]
          /\ IF id = 0
             THEN /\ q_pc' = [q_pc EXCEPT ![t] = "returned"]
                  /\ q_result' = [q_result EXCEPT ![t] = "no_task_id"]
             ELSE /\ q_pc' = [q_pc EXCEPT ![t] = "check"]
                  /\ q_result' = [q_result EXCEPT ![t] = "none"]
    /\ q_calls' = q_calls + 1
    /\ UNCHANGED q_processing

\* lines 40-42: `if task_id in self.processing_tasks`: the call returns
\* success = False at once, before the try / finally block
ProcCheck(t) ==
    /\ q_pc[t] = "check"
    /\ UNCHANGED <<nonMqVars, consumerVars>>
    /\ IF q_task[t] \in q_processing
       THEN /\ q_pc' = [q_pc EXCEPT ![t] = "returned"]
            /\ q_result' = [q_result EXCEPT ![t] = "rejected"]
       ELSE /\ q_pc' = [q_pc EXCEPT ![t] = "add"]
            /\ UNCHANGED q_result
    /\ UNCHANGED <<q_processing, q_task, q_calls>>

\* line 44: self.processing_tasks.add(task_id); no lock joins it to the test
ProcAdd(t) ==
    /\ q_pc[t] = "add"
    /\ UNCHANGED <<nonMqVars, consumerVars>>
    /\ q_processing' = q_processing \cup {q_task[t]}
    /\ q_pc' = [q_pc EXCEPT ![t] = "executing"]
    /\ UNCHANGED <<q_task, q_result, q_calls>>

\* lines 46-70: the task is built and collect_with_retry runs
ProcExecute(t) ==
    /\ q_pc[t] = "executing"
    /\ UNCHANGED <<nonMqVars, consumerVars>>
    /\ \E outcome \in ExecutionOutcomes :
          q_result' = [q_result EXCEPT ![t] = outcome]
    /\ q_pc' = [q_pc EXCEPT ![t] = "finally"]
    /\ UNCHANGED <<q_processing, q_task, q_calls>>

\* lines 72-73: finally: self.processing_tasks.discard(task_id)
discard(processing, id, outcome) == processing \ {id}

\* the finally block runs and the call returns: the result of the collector,
\* or the failure dict of the outer except (lines 75-82)
ProcFinally(t) ==
    /\ q_pc[t] = "finally"
    /\ UNCHANGED <<nonMqVars, consumerVars>>
    /\ q_processing' = discard(q_processing, q_task[t], q_result[t])
    /\ q_pc' = [q_pc EXCEPT ![t] = "returned"]
    /\ UNCHANGED <<q_task, q_result, q_calls>>

\* the caller goes on
ProcDone(t) ==
    /\ q_pc[t] = "returned"
    /\ UNCHANGED <<nonMqVars, consumerVars>>
    /\ q_pc' = [q_pc EXCEPT ![t] = "idle"]
    /\ UNCHANGED <<q_processing, q_task, q_result, q_calls>>

ProcessorIdle ==
    /\ q_processing = {}
    /\ q_pc = [t \in ProcThreads |-> "idle"]
    /\ q_task = [t \in ProcThreads |-> 0]
    /\ q_result = [t \in ProcThreads |-> "none"]
    /\ q_calls = MaxProcCalls

\* the bodies a message can have: a JSON object, text that is not JSON, bytes
\* that are not UTF-8, JSON that is not an object
BodyKinds == {"task", "not_json", "not_utf8", "json_not_object"}

\* line 158, json.loads(body.decode('utf-8')): bytes that are not UTF-8 raise
\* UnicodeDecodeError in decode, text that is not JSON raises JSONDecodeError
parse_body(body) ==
    IF body = "task" THEN "message"
    ELSE IF body = "json_not_object" THEN "value"
    ELSE IF body = "not_utf8" THEN "UnicodeDecodeError"
    ELSE "JSONDecodeError"

\* the except clause an exception of the callback ends in (lines 178-186)
settle_exception(exc) ==
    IF exc = "JSONDecodeError" THEN "nack" ELSE "nack_requeue"

\* the broker delivers a message: _message_callback is entered
Deliver ==
    /\ m_pc = "idle"
    /\ m_count < MaxMessages
    /\ UNCHANGED <<nonMqVars, processorVars>>
    /\ m_body' \in BodyKinds
    /\ m_log' = <<>>
    /\ m_settled' = <<>>
    /\ m_count' = m_count + 1
    /\ m_pc' = "parse"
    /\ UNCHANGED m_history

\* lines 158-159: the body is parsed; message.get in the log call raises
\* AttributeError when the JSON value is not an object
Parse ==
    /\ m_pc = "parse"
    /\ UNCHANGED <<nonMqVars, processorVars>>
    /\ LET parsed == parse_body(m_body) IN
       IF parsed = "message"
       THEN /\ m_log' = Append(m_log, "parsed")
            /\ m_pc' = "process"
            /\ UNCHANGED <<m_settled, m_history>>
       ELSE /\ m_log' = Append(m_log, IF parsed = "value" THEN "AttributeError" ELSE parsed)
            /\ m_settled' = Append(m_settled,
                                   settle_exception(IF parsed = "value"
                                                    THEN "AttributeError" ELSE parsed))
            /\ m_history' = Append(m_history, [body |-> m_body, log |-> m_log',
                                               settled |-> m_settled'])
            /\ m_pc' = "idle"
    /\ UNCHANGED <<m_body, m_count>>

\* line 162: self.task_processor.process_collection_task(message), which
\* returns a result dict for every message that is an object
Process ==
    /\ m_pc = "process"
    /\ UNCHANGED <<nonMqVars, processorVars>>
    /\ \E outcome \in {"success", "failure"} :
          m_log' = Append(m_log, outcome)
    /\ m_pc' = "publish"
    /\ UNCHANGED <<m_body, m_settled, m_count, m_history>>

\* lines 165-173: publish_task_result; its exception is logged
Publish ==
    /\ m_pc = "publish"
    /\ UNCHANGED <<nonMqVars, processorVars>>
    /\ \E published \in BOOLEAN :
          m_log' = Append(m_log, IF published THEN "published" ELSE "publish_failed")
    /\ m_pc' = "ack"
    /\ UNCHANGED <<m_body, m_settled, m_count, m_history>>

\* line 176: channel.basic_ack
Ack ==
    /\ m_pc = "ack"
    /\ UNCHANGED <<nonMqVars, processorVars>>
    /\ m_settled' = Append(m_settled, "ack")
    /\ m_history' = Append(m_history, [body |-> m_body, log |-> m_log,
                                       settled |-> m_settled'])
    /\ m_pc' = "idle"
    /\ UNCHANGED <<m_body, m_log, m_count>>

ConsumerIdle ==
    /\ m_pc = "off"
    /\ m_body = "task"
    /\ m_log = <<>>
    /\ m_settled = <<>>
    /\ m_count = 0
    /\ m_history = <<>>

MqIdle == ProcessorIdle /\ ConsumerIdle

\* ======================================================================
\* Batch execution: MultiThreadSSHCollector and ThreadPoolManager
\* ======================================================================

\* CollectionTask.retry_count when the task data does not set it
default_retry_count == 3

TaskIds == 1..ntasks

Min(a, b) == IF a <= b THEN a ELSE b

\* use_threading = enable_threading if enable_threading is not None
\*                 else settings.enable_threading
use_threading(arg, setting) == IF arg = "none" THEN setting ELSE arg = "true"

\* workers = max_workers or settings.max_concurrent_threads   (execute_batch_tasks)
batch_workers(mw) == IF mw # 0 THEN mw ELSE max_concurrent_threads

\* an executor as wide as the batch, whatever max_workers says
pool_workers_unbounded(mw, n) == n

\* workers = min(max_workers or self.max_workers, len(tasks))  (execute_tasks_parallel)
pool_workers(mw, n) == Min(IF mw # 0 THEN mw ELSE max_concurrent_threads, n)

\* the caller's flag is not consulted
takes_pool_path_ignoring_flag(e, arg, setting, n) ==
    \/ e = "execute_tasks_parallel"
    \/ n > 1

\* `if use_threading and total_tasks > 1`: execute_batch_tasks hands the batch to
\* thread_pool_manager.execute_tasks_parallel; a direct call is there already.
takes_pool_path(e, arg, setting, n) ==
    \/ e = "execute_tasks_parallel"
    \/ (use_threading(arg, setting) /\ n > 1)

\* the max_workers argument execute_tasks_parallel receives
pool_max_workers_arg(e, mw) ==
    IF e = "execute_batch_tasks" THEN batch_workers(mw) ELSE mw

NoFutResult == [kind |-> "none", raised |-> FALSE, value |-> NoResult]

\* what collect_with_retry returns to _execute_single_task for a task that
\* connected: nsucc of its MaxBatchCmds commands succeeded, first attempt
collected_ok(i, nsucc) ==
    format_ssh_result(TRUE,
                      result_data(i, [k \in 1..MaxBatchCmds |-> k <= nsucc], 0),
                      NoError)

\* what collect_with_retry returns for a task whose retries are exhausted
collected_failed(i) ==
    format_ssh_result(FALSE, NoData, failure_error(i, default_retry_count, "error"))

\* the dict built by the except branch of _execute_single_task
single_task_failure(i) ==
    [returned |-> TRUE, success |-> FALSE, task_id |-> i, host |-> host_of(i),
     data |-> NoData,
     error |-> [present |-> TRUE, task_id |-> 0, retried |-> 0, last |-> "exception",
                text |-> "message"],
     counts |-> [present |-> TRUE, total_commands |-> MaxBatchCmds,
                 success_commands |-> 0, failed_commands |-> MaxBatchCmds]]

\* a wrapper without the except branch: the exception leaves the task function
execute_single_task_unguarded(i, kind, nsucc) ==
    IF kind = "ok" THEN [kind |-> kind, raised |-> FALSE, value |-> collected_ok(i, nsucc)]
    ELSE IF kind = "fail" THEN [kind |-> kind, raised |-> FALSE, value |-> collected_failed(i)]
    ELSE [kind |-> kind, raised |-> TRUE, value |-> NoResult]

\* MultiThreadSSHCollector._execute_single_task: never raises
execute_single_task(i, kind, nsucc) ==
    IF kind = "ok" THEN [kind |-> kind, raised |-> FALSE, value |-> collected_ok(i, nsucc)]
    ELSE IF kind = "fail" THEN [kind |-> kind, raised |-> FALSE, value |-> collected_failed(i)]
    ELSE [kind |-> kind, raised |-> FALSE, value |-> single_task_failure(i)]

\* a task function handed to execute_tasks_parallel by a direct caller: it
\* returns a dict naming its task or raises
raw_task_func(i, kind) ==
    IF kind = "ok"
    THEN [kind |-> kind, raised |-> FALSE,
          value |-> [returned |-> TRUE, success |-> TRUE, task_id |-> i, host |-> 0,
                     data |-> NoData, error |-> NoError, counts |-> NoCounts]]
    ELSE [kind |-> kind, raised |-> TRUE, value |-> NoResult]

\* the task function of the batch call and the ways one call of it can end
\* ("raise_empty": the exception raised has an empty message, as ValueError())
TaskKinds(e) ==
    IF e = "execute_batch_tasks" THEN {"ok", "fail", "raise"}
    ELSE {"ok", "raise", "raise_empty"}

task_func(e, i, kind, nsucc) ==
    IF e = "execute_batch_tasks" THEN execute_single_task(i, kind, nsucc)
    ELSE raw_task_func(i, kind)

\* str(e) of the exception a task function ended with
exception_text(kind) == IF kind = "raise_empty" THEN "empty" ELSE "message"

\* the dict the pool appends when task_func raised
pool_failure(i, kind) ==
    [returned |-> TRUE, success |-> FALSE, task_id |-> i, host |-> 0, data |-> NoData,
     error |-> [present |-> TRUE, task_id |-> 0, retried |-> 0, last |-> "exception",
                text |-> exception_text(kind)],
     counts |-> NoCounts]

\* an except branch that loses the task id
pool_collect_unknown(i, r) == IF r.raised THEN pool_failure(0, r.kind) ELSE r.value

\* try: results.append(result) / except: results.append({...task_id...})
pool_collect(i, r) == IF r.raised THEN pool_failure(i, r.kind) ELSE r.value

\* sum(1 for r in results if r.get("success", False))
RECURSIVE success_tasks(_)
success_tasks(rs) ==
    IF rs = <<>> THEN 0
    ELSE (IF Head(rs).success THEN 1 ELSE 0) + success_tasks(Tail(rs))

\* sum(r.get(key, 0) for r in results): the key is looked up at the top level
\* of each result dict
RECURSIVE sum_top_level(_, _)
sum_top_level(rs, key) ==
    IF rs = <<>> THEN 0
    ELSE (IF Head(rs).counts.present THEN Head(rs).counts[key] ELSE 0)
         + sum_top_level(Tail(rs), key)

NoBatchResult ==
    [present |-> FALSE, success |-> FALSE, threading_enabled |-> FALSE, max_workers |-> 0,
     total_tasks |-> 0, success_tasks |-> 0, failed_tasks |-> 0,
     total_commands |-> 0, success_commands |-> 0, failed_commands |-> 0,
     task_results |-> <<>>]

\* lines 586-611 of execute_batch_tasks
make_batch_result(rs) ==
    [present           |-> TRUE,
     success           |-> TRUE,
     threading_enabled |-> use_threading(enable_threading, settings_enable_threading),
     max_workers       |-> IF use_threading(enable_threading, settings_enable_threading)
                           THEN batch_workers(max_workers) ELSE 1,
     total_tasks       |-> ntasks,
     success_tasks     |-> success_tasks(rs),
     failed_tasks      |-> ntasks - success_tasks(rs),
     total_commands    |-> sum_top_level(rs, "total_commands"),
     success_commands  |-> sum_top_level(rs, "success_commands"),
     failed_commands   |-> sum_top_level(rs, "failed_commands"),
     task_results      |-> rs]

\* the batch call returns rs: execute_tasks_parallel returns the list,
\* execute_batch_tasks wraps it into the batch result
return_results(rs) ==
    /\ bpc' = "returned"
    /\ batch_result' = IF entry = "execute_batch_tasks" THEN make_batch_result(rs)
                       ELSE NoBatchResult

\* an exception leaves the batch call; handle_exception of execute_batch_tasks
\* re-raises it as a CollectorException
raise_error(err) ==
    /\ bpc' = "raised"
    /\ raised_error' = IF entry = "execute_batch_tasks" THEN "CollectorException" ELSE err

Running == {i \in TaskIds : fut[i] \in {"running", "stuck"}}

Queued == {i \in TaskIds : fut[i] = "queued"}

\* ssh_core.py 562-584 and thread_pool_manager.py 105-125: the mode is chosen
BatchCall ==
    /\ bpc = "start"
    /\ UNCHANGED nonBatchVars
    /\ IF takes_pool_path(entry, enable_threading, settings_enable_threading, ntasks)
       THEN IF pool_runs_serially(pool_enabled, ntasks)
            THEN /\ mode' = "serial_pool"
                 /\ workers' = 0
                 /\ bpc' = "serial"
            ELSE /\ mode' = "parallel"
                 /\ workers' = pool_workers(pool_max_workers_arg(entry, max_workers), ntasks)
                 /\ bpc' = "submitting"
       ELSE /\ mode' = "serial_batch"
            /\ workers' = 0
            /\ bpc' = "serial"
    /\ cursor' = 1
    /\ UNCHANGED <<entry, ntasks, enable_threading, settings_enable_threading,
                   pool_enabled, max_workers, fut, futResult, pool_results,
                   batch_result, timed_out, raised_error, startOrder>>

\* serial loops (ssh_core.py 582-583, thread_pool_manager.py 109-111):
\* task_func is entered for the next task of the list
SerialStart ==
    /\ bpc = "serial"
    /\ UNCHANGED nonBatchVars
    /\ cursor <= ntasks
    /\ fut[cursor] = "none"
    /\ fut' = [fut EXCEPT ![cursor] = "running"]
    /\ startOrder' = Append(startOrder, cursor)
    /\ UNCHANGED <<entry, ntasks, enable_threading, settings_enable_threading,
                   pool_enabled, max_workers, bpc, mode, workers, cursor, futResult,
                   pool_results, batch_result, timed_out, raised_error>>

\* serial loops: task_func comes back. The pool's loop converts an exception
\* (lines 113-120); the loop of execute_batch_tasks has no try block.
SerialFinish ==
    /\ bpc = "serial"
    /\ UNCHANGED nonBatchVars
    /\ cursor <= ntasks
    /\ fut[cursor] = "running"
    /\ \E kind \in TaskKinds(entry), nsucc \in 0..MaxBatchCmds :
          LET r == task_func(entry, cursor, kind, nsucc) IN
          /\ futResult' = [futResult EXCEPT ![cursor] = r]
          /\ IF mode = "serial_batch" /\ r.raised
             THEN /\ fut' = [fut EXCEPT ![cursor] = "done"]
                  /\ raise_error("Exception")
                  /\ UNCHANGED <<pool_results, cursor>>
             ELSE /\ fut' = [fut EXCEPT ![cursor] = "collected"]
                  /\ pool_results' = Append(pool_results, pool_collect(cursor, r))
                  /\ cursor' = cursor + 1
                  /\ UNCHANGED <<bpc, raised_error>>
    /\ UNCHANGED <<entry, ntasks, enable_threading, settings_enable_threading,
                   pool_enabled, max_workers, mode, workers, batch_result, timed_out,
                   startOrder>>

\* serial loops: the list is exhausted, the results are returned
SerialReturn ==
    /\ bpc = "serial"
    /\ UNCHANGED nonBatchVars
    /\ cursor > ntasks
    /\ return_results(pool_results)
    /\ UNCHANGED <<entry, ntasks, enable_threading, settings_enable_threading,
                   pool_enabled, max_workers, mode, workers, cursor, fut, futResult,
                   pool_results, timed_out, raised_error, startOrder>>

\* a running task blocks for ever (a device that never answers)
TaskHang ==
    /\ bpc \in {"serial", "submitting", "collecting", "shutdown"}
    /\ UNCHANGED nonBatchVars
    /\ \E i \in TaskIds :
          /\ fut[i] = "running"
          /\ fut' = [fut EXCEPT ![i] = "stuck"]
    /\ UNCHANGED <<entry, ntasks, enable_threading, settings_enable_threading,
                   pool_enabled, max_workers, bpc, mode, workers, cursor, futResult,
                   pool_results, batch_result, timed_out, raised_error, startOrder>>

\* lines 130-133: executor.submit(task_func, task) for the next task of the list
Submit ==
    /\ bpc = "submitting"
    /\ UNCHANGED nonBatchVars
    /\ cursor <= ntasks
    /\ fut' = [fut EXCEPT ![cursor] = "queued"]
    /\ cursor' = cursor + 1
    /\ bpc' = IF cursor = ntasks THEN "collecting" ELSE "submitting"
    /\ UNCHANGED <<entry, ntasks, enable_threading, settings_enable_threading,
                   pool_enabled, max_workers, mode, workers, futResult, pool_results,
                   batch_result, timed_out, raised_error, startOrder>>

\* line 128, ThreadPoolExecutor(max_workers=workers): a free worker thread takes
\* the oldest queued task
WorkerStart ==
    /\ mode = "parallel"
    /\ UNCHANGED nonBatchVars
    /\ bpc \in {"submitting", "collecting", "shutdown"}
    /\ Queued # {}
    /\ Cardinality(Running) < workers
    /\ LET i == CHOOSE q \in Queued : \A o \in Queued : q <= o IN
          /\ fut' = [fut EXCEPT ![i] = "running"]
          /\ startOrder' = Append(startOrder, i)
    /\ UNCHANGED <<entry, ntasks, enable_threading, settings_enable_threading,
                   pool_enabled, max_workers, bpc, mode, workers, cursor, futResult,
                   pool_results, batch_result, timed_out, raised_error>>

\* a worker thread finishes task_func(task): the future holds its value or exception
WorkerFinish ==
    /\ mode = "parallel"
    /\ UNCHANGED nonBatchVars
    /\ bpc \in {"submitting", "collecting", "shutdown"}
    /\ \E i \in TaskIds, kind \in TaskKinds(entry), nsucc \in 0..MaxBatchCmds :
          /\ fut[i] = "running"
          /\ fut' = [fut EXCEPT ![i] = "done"]
          /\ futResult' = [futResult EXCEPT ![i] = task_func(entry, i, kind, nsucc)]
    /\ UNCHANGED <<entry, ntasks, enable_threading, settings_enable_threading,
                   pool_enabled, max_workers, bpc, mode, workers, cursor,
                   pool_results, batch_result, timed_out, raised_error, startOrder>>

\* a collecting loop whose except branch only logs the failure
Collect_dropping_failures ==
    /\ bpc = "collecting"
    /\ UNCHANGED nonBatchVars
    /\ \E i \in TaskIds :
          /\ fut[i] = "done"
          /\ fut' = [fut EXCEPT ![i] = "collected"]
          /\ pool_results' = IF futResult[i].raised THEN pool_results
                             ELSE Append(pool_results, futResult[i].value)
    /\ UNCHANGED <<entry, ntasks, enable_threading, settings_enable_threading,
                   pool_enabled, max_workers, bpc, mode, workers, cursor, futResult,
                   batch_result, timed_out, raised_error, startOrder>>

\* lines 136-151: as_completed yields a finished future, its result is appended
Collect ==
    /\ bpc = "collecting"
    /\ UNCHANGED nonBatchVars
    /\ \E i \in TaskIds :
          /\ fut[i] = "done"
          /\ fut' = [fut EXCEPT ![i] = "collected"]
          /\ pool_results' = Append(pool_results, pool_collect(i, futResult[i]))
    /\ UNCHANGED <<entry, ntasks, enable_threading, settings_enable_threading,
                   pool_enabled, max_workers, bpc, mode, workers, cursor, futResult,
                   batch_result, timed_out, raised_error, startOrder>>

\* line 136, as_completed(..., timeout=self.timeout): the timeout elapses while a
\* future is unfinished; TimeoutError is raised in the for statement, outside the
\* try block of the loop body, and the with block is left
Timeout ==
    /\ bpc = "collecting"
    /\ UNCHANGED nonBatchVars
    /\ \E i \in TaskIds : fut[i] \in {"queued", "running", "stuck"}
    /\ timed_out' = TRUE
    /\ bpc' = "shutdown"
    /\ UNCHANGED <<entry, ntasks, enable_threading, settings_enable_threading,
                   pool_enabled, max_workers, mode, workers, cursor, fut, futResult,
                   pool_results, batch_result, raised_error, startOrder>>

\* lines 128 and 153: every future was yielded; the with block ends (shutdown
\* has nothing to wait for) and the results are returned
PoolReturn ==
    /\ bpc = "collecting"
    /\ UNCHANGED nonBatchVars
    /\ \A i \in TaskIds : fut[i] = "collected"
    /\ return_results(pool_results)
    /\ UNCHANGED <<entry, ntasks, enable_threading, settings_enable_threading,
                   pool_enabled, max_workers, mode, workers, cursor, fut, futResult,
                   pool_results, timed_out, raised_error, startOrder>>

\* line 128, ThreadPoolExecutor.__exit__ = shutdown(wait=True): the with block is
\* left with the TimeoutError only when every submitted task has finished
ShutdownDone ==
    /\ bpc = "shutdown"
    /\ UNCHANGED nonBatchVars
    /\ \A i \in TaskIds : fut[i] \in {"done", "collected"}
    /\ raise_error("TimeoutError")
    /\ UNCHANGED <<entry, ntasks, enable_threading, settings_enable_threading,
                   pool_enabled, max_workers, mode, workers, cursor, fut, futResult,
                   pool_results, batch_result, timed_out, startOrder>>

\* the batch side while a single collect_with_retry call is studied
BatchIdle ==
    /\ entry = "execute_batch_tasks"
    /\ ntasks = 0
    /\ enable_threading = "none"
    /\ settings_enable_threading = TRUE
    /\ pool_enabled = TRUE
    /\ max_workers = 0
    /\ bpc = "idle"
    /\ mode = "none"
    /\ workers = 0
    /\ cursor = 1
    /\ fut = <<>>
    /\ futResult = <<>>
    /\ pool_results = <<>>
    /\ batch_result = NoBatchResult
    /\ timed_out = FALSE
    /\ raised_error = "none"
    /\ startOrder = <<>>

\* the collect_with_retry side while a batch call is studied
RetryIdle ==
    /\ retry_count = default_retry_count
    /\ ncommands = 0
    /\ creds_valid = TRUE
    /\ ssh_retry_delay = 1
    /\ pc = "idle"
    /\ attempt = 0
    /\ connection = "none"
    /\ results = <<>>
    /\ last_error = "none"
    /\ result = NoResult
    /\ lifecycle = <<>>
    /\ connectCalls = 0
    /\ networkOpens = 0
    /\ disconnectCalls = 0
    /\ sleeps = <<>>
    /\ connectLog = <<>>
    /\ execLog = <<>>
    /\ dbCalls = <<>>

InitRetry ==
    /\ PoolIdle
    /\ SessionIdle
    /\ MqIdle
    /\ RegistryIdle
    /\ BatchIdle
    /\ ResolverIdle
    /\ CredsIdle
    /\ retry_count \in -1..MaxRetry
    /\ ncommands \in 0..MaxCmds
    /\ creds_valid \in BOOLEAN
    /\ ssh_retry_delay \in 1..MaxDelay
    /\ pc = "start"
    /\ attempt = 0
    /\ connection = "none"
    /\ results = <<>>
    /\ last_error = "none"
    /\ result = NoResult
    /\ lifecycle = <<>>
    /\ connectCalls = 0
    /\ networkOpens = 0
    /\ disconnectCalls = 0
    /\ sleeps = <<>>
    /\ connectLog = <<>>
    /\ execLog = <<>>
    /\ dbCalls = <<>>

NextRetry ==
    \/ Begin
    \/ Connect
    \/ ExecuteCommand
    \/ ExecuteRaise
    \/ FinishSuccess
    \/ Wake
    \/ Exhausted

SpecRetry == InitRetry /\ [][NextRetry]_vars

InitBatch ==
    /\ PoolIdle
    /\ SessionIdle
    /\ MqIdle
    /\ RegistryIdle
    /\ RetryIdle
    /\ ResolverIdle
    /\ CredsIdle
    /\ entry \in {"execute_batch_tasks", "execute_tasks_parallel"}
    /\ ntasks \in 0..MaxTasks
    /\ enable_threading \in
          IF entry = "execute_batch_tasks" THEN {"none", "true", "false"} ELSE {"none"}
    /\ settings_enable_threading \in BOOLEAN
    /\ pool_enabled \in BOOLEAN
    /\ max_workers \in 0..MaxWorkers
    /\ bpc = "start"
    /\ mode = "none"
    /\ workers = 0
    /\ cursor = 1
    /\ fut = [i \in 1..ntasks |-> "none"]
    /\ futResult = [i \in 1..ntasks |-> NoFutResult]
    /\ pool_results = <<>>
    /\ batch_result = NoBatchResult
    /\ timed_out = FALSE
    /\ raised_error = "none"
    /\ startOrder = <<>>

NextBatch ==
    \/ BatchCall
    \/ SerialStart
    \/ SerialFinish
    \/ SerialReturn
    \/ TaskHang
    \/ Submit
    \/ WorkerStart
    \/ WorkerFinish
    \/ Collect
    \/ Timeout
    \/ PoolReturn
    \/ ShutdownDone

SpecBatch == InitBatch /\ [][NextBatch]_vars

\* the scheduler keeps running whatever can run: threads that can take a step do
FairSpecBatch == SpecBatch /\ WF_vars(NextBatch)

\* one resolver call, on any caller command and profile, or on the Huawei profile
InitResolver ==
    /\ PoolIdle
    /\ SessionIdle
    /\ MqIdle
    /\ RegistryIdle
    /\ RetryIdle
    /\ BatchIdle
    /\ CredsIdle
    /\ \/ /\ plugins \in {Registry(prof) : prof \in Profiles}
          /\ device_type = KnownType
          /\ cmd \in CallerCommands(Texts)
       \/ /\ plugins = Registry(HuaweiProfile)
          /\ device_type = KnownType
          /\ cmd \in CallerCommands(HuaweiCommandTexts)
       \/ /\ plugins \in {NoRegistry, Registry(HuaweiProfile)}
          /\ device_type \in DeviceTypes
          /\ cmd \in CallerCommands(HuaweiCommandTexts)
    /\ profile = NoProfile
    /\ resolved = cmd
    /\ resolved_again = cmd
    /\ sent = NoSend
    /\ rpc = "input"

NextResolver ==
    \/ Resolve
    \/ ResolveAgain
    \/ Send

SpecResolver == InitResolver /\ [][NextResolver]_vars

\* one SSHCredentials construction followed by connect()'s validation
InitCreds ==
    /\ PoolIdle
    /\ SessionIdle
    /\ MqIdle
    /\ RegistryIdle
    /\ RetryIdle
    /\ BatchIdle
    /\ ResolverIdle
    /\ credsIn \in CredentialArgs
    /\ credsOut = "none"
    /\ credsChecked = "none"

NextCreds ==
    \/ Construct
    \/ Validate

SpecCreds == InitCreds /\ [][NextCreds]_vars

\* a pool as constructed, a client thread that calls start and submit_task, a
\* thread that calls stop, and a batch running beside them
InitPool ==
    /\ SessionIdle
    /\ MqIdle
    /\ RegistryIdle
    /\ RetryIdle
    /\ BatchIdle
    /\ ResolverIdle
    /\ CredsIdle
    /\ p_enabled \in BOOLEAN
    /\ p_executor = "none"
    /\ p_lock = "free"
    /\ p_active = {}
    /\ p_status = [i \in PoolTasks |-> "none"]
    /\ p_attempt = [i \in PoolTasks |-> 0]
    /\ p_client = "idle"
    /\ p_nested = FALSE
    /\ p_next = 1
    /\ p_startCalls = 0
    /\ p_ret = [i \in PoolTasks |-> "none"]
    /\ p_stopper = "idle"
    /\ p_stops = 0
    /\ p_atStop = [i \in PoolTasks |-> "none"]
    /\ p_lateConnect = [i \in PoolTasks |-> FALSE]
    /\ p_batch = "none"
    /\ p_max_workers = max_concurrent_threads
    /\ p_local = "none"
    /\ p_batches = 0
    /\ p_observer = "idle"
    /\ p_obs_task = 1
    /\ p_obs_calls = MaxObsCalls
    /\ p_access = NoAccess

NextPool ==
    \/ ClientStart
    \/ StartAcquire
    \/ StartBody
    \/ SubmitCall
    \/ SubmitAcquire
    \/ SubmitBody
    \/ StopCall
    \/ StopAcquire
    \/ StopBody
    \/ StopShutdown
    \/ \E i \in PoolTasks : PoolTaskStart(i)
    \/ \E i \in PoolTasks : PoolConnectOk(i)
    \/ \E i \in PoolTasks : PoolConnectFail(i)
    \/ \E i \in PoolTasks : PoolWake(i)
    \/ \E i \in PoolTasks : PoolCommandsDone(i)
    \/ PoolBatchBegin
    \/ PoolBatchEnd

SpecPool == InitPool /\ [][NextPool]_vars

\* the registry of a started pool: a client thread that submits tasks, worker
\* threads that run them, a thread that stops the pool and a thread that calls
\* wait_for_task, cancel_task and get_status
InitPoolRegistry ==
    /\ SessionIdle
    /\ MqIdle
    /\ RegistryIdle
    /\ RetryIdle
    /\ BatchIdle
    /\ ResolverIdle
    /\ CredsIdle
    /\ p_enabled = TRUE
    /\ p_executor = "alloc"
    /\ p_lock = "free"
    /\ p_active = {}
    /\ p_status = [i \in PoolTasks |-> "none"]
    /\ p_attempt = [i \in PoolTasks |-> 0]
    /\ p_client = "idle"
    /\ p_nested = FALSE
    /\ p_next = 1
    /\ p_startCalls = 1
    /\ p_ret = [i \in PoolTasks |-> "none"]
    /\ p_stopper = "idle"
    /\ p_stops = 0
    /\ p_atStop = [i \in PoolTasks |-> "none"]
    /\ p_lateConnect = [i \in PoolTasks |-> FALSE]
    /\ p_batch = "finished"
    /\ p_max_workers = max_concurrent_threads
    /\ p_local = "none"
    /\ p_batches = MaxBatches
    /\ p_observer = "idle"
    /\ p_obs_task = 1
    /\ p_obs_calls = 0
    /\ p_access = NoAccess

NextPoolRegistry ==
    \/ SubmitCall
    \/ SubmitAcquire
    \/ SubmitBody
    \/ StopCall
    \/ StopAcquire
    \/ StopBody
    \/ StopShutdown
    \/ \E i \in PoolTasks : PoolTaskStart(i)
    \/ \E i \in PoolTasks : PoolConnectOk(i)
    \/ \E i \in PoolTasks : PoolCommandsDone(i)
    \/ \E i \in PoolTasks : ObsWaitCall(i)
    \/ ObsWaitResult
    \/ \E i \in PoolTasks : ObsCancelCall(i)
    \/ ObsPopAcquire
    \/ ObsPop
    \/ ObsStatusCall
    \/ ObsStatusAcquire
    \/ ObsStatus

SpecPoolRegistry == InitPoolRegistry /\ [][NextPoolRegistry]_vars

FairSpecPool == SpecPool /\ WF_vars(NextPool)

\* a plugin directory, the construction of the manager, a reload and lookups
InitRegistry ==
    /\ RetryIdle
    /\ BatchIdle
    /\ ResolverIdle
    /\ CredsIdle
    /\ PoolIdle
    /\ SessionIdle
    /\ MqIdle
    /\ g_files \in FileLists
    /\ g_plugins = {}
    /\ g_pc = "new"
    /\ g_idx = 1
    /\ g_reloads = 0
    /\ g_seen = NoLookup

NextRegistry ==
    \/ LoadBegin
    \/ LoadEntry
    \/ LoadEnd
    \/ ReloadCall
    \/ Lookup

SpecRegistry == InitRegistry /\ [][NextRegistry]_vars

\* a new SSHCollector and any sequence of calls on it
InitSession ==
    /\ MqIdle
    /\ RetryIdle
    /\ BatchIdle
    /\ ResolverIdle
    /\ CredsIdle
    /\ PoolIdle
    /\ RegistryIdle
    /\ s_conn = 0
    /\ s_live = {}
    /\ s_opened = 0
    /\ s_calls = 0
    /\ s_prev = 0
    /\ s_last = NoCall
    /\ s_pc = "idle"
    /\ s_plan = <<>>
    /\ s_sent = <<>>
    /\ s_results = <<>>

NextSession ==
    \/ SessionConnect
    \/ SessionDisconnect
    \/ SessionExecuteCall
    \/ SessionExecuteCommand
    \/ SessionExecuteReturn

SpecSession == InitSession /\ [][NextSession]_vars

\* one TaskProcessor called by two threads
InitProcessor ==
    /\ RetryIdle
    /\ BatchIdle
    /\ ResolverIdle
    /\ CredsIdle
    /\ PoolIdle
    /\ RegistryIdle
    /\ SessionIdle
    /\ ConsumerIdle
    /\ q_processing = {}
    /\ q_pc = [t \in ProcThreads |-> "idle"]
    /\ q_task = [t \in ProcThreads |-> 0]
    /\ q_result = [t \in ProcThreads |-> "none"]
    /\ q_calls = 0

NextProcessor ==
    \/ \E t \in ProcThreads : ProcCall(t)
    \/ \E t \in ProcThreads : ProcCheck(t)
    \/ \E t \in ProcThreads : ProcAdd(t)
    \/ \E t \in ProcThreads : ProcExecute(t)
    \/ \E t \in ProcThreads : ProcFinally(t)
    \/ \E t \in ProcThreads : ProcDone(t)

SpecProcessor == InitProcessor /\ [][NextProcessor]_vars

\* one consumer and the messages the broker delivers to it, one at a time
InitConsumer ==
    /\ RetryIdle
    /\ BatchIdle
    /\ ResolverIdle
    /\ CredsIdle
    /\ PoolIdle
    /\ RegistryIdle
    /\ SessionIdle
    /\ ProcessorIdle
    /\ m_pc = "idle"
    /\ m_body = "task"
    /\ m_log = <<>>
    /\ m_settled = <<>>
    /\ m_count = 0
    /\ m_history = <<>>

NextConsumer ==
    \/ Deliver
    \/ Parse
    \/ Process
    \/ Publish
    \/ Ack

SpecConsumer == InitConsumer /\ [][NextConsumer]_vars

\* ======================================================================
\* Properties of collect_with_retry (checked under SpecRetry)
\* ======================================================================

\* the attempts (1-based) whose connect call succeeded
ConnectedAttempts == {k \in 1..Len(connectLog) : connectLog[k] = "ok"}

\* no connect call of the run succeeded
EveryConnectFailed == ConnectedAttempts = {}

\* the first attempt whose connect call succeeded (only used when there is one)
FirstConnected == CHOOSE k \in ConnectedAttempts : \A j \in ConnectedAttempts : k <= j

\* number of commands of the current attempt recorded with success = False
failed_count(rs) == Cardinality({i \in 1..Len(rs) : ~rs[i]})

\* C1: when retry_count = R >= 1 and every connect fails, the run makes exactly R
\* connect attempts, returns success = false with an error that carries the
\* attempt count R, and sleeps exactly R-1 times, ssh_retry_delay * n after failed
\* attempt n, never after the last attempt.
C1_AllConnectsFail ==
    /\ (pc = "returned" /\ retry_count >= 1 /\ EveryConnectFailed) =>
          /\ connectCalls = retry_count
          /\ ~result.success
          /\ result.error.present
          /\ result.error.retried = retry_count
          /\ ~result.data.present
          /\ Len(sleeps) = retry_count - 1
          /\ \A n \in 1..Len(sleeps) : sleeps[n] = ssh_retry_delay * n
    /\ (pc = "sleeping" /\ EveryConnectFailed) =>
          /\ connectCalls < retry_count
          /\ Len(sleeps) = connectCalls
          /\ sleeps[connectCalls] = ssh_retry_delay * connectCalls

W_C1 ==
    /\ pc = "returned"
    /\ retry_count = MaxRetry
    /\ EveryConnectFailed
    /\ connectCalls = MaxRetry
    /\ Len(sleeps) = MaxRetry - 1
    /\ ~result.success

C3_CommandFailuresNotRetried ==
    /\ [](\A k \in 1..Len(execLog) : execLog[k] = "returned" =>
             /\ pc = "returned"
             /\ k = connectCalls
             /\ result.success
             /\ result.data.failed_commands = failed_count(results)
             /\ result.data.success_commands + result.data.failed_commands
                   = result.data.total_commands
             /\ result.data.total_commands = ncommands)
    /\ [][(pc = "executing" /\ Len(results') = Len(results) + 1
             /\ ~results'[Len(results')]) =>
             /\ pc' = "executing"
             /\ connectCalls' = connectCalls
             /\ disconnectCalls' = disconnectCalls
             /\ sleeps' = sleeps]_vars

W_C3 ==
    /\ pc = "returned"
    /\ result.success
    /\ ncommands = MaxCmds
    /\ result.data.failed_commands = MaxCmds
    /\ connectCalls = 1

\* C4: disconnect is invoked exactly once for each connect attempt, before the next
\* attempt starts or the run returns, whether connect failed, all commands ran or
\* execute_commands raised.
C4_DisconnectOncePerConnect ==
    /\ pc \in {"start", "loop", "sleeping", "returned"} =>
          /\ disconnectCalls = connectCalls
          /\ connection = "none"
    /\ pc = "executing" =>
          /\ disconnectCalls = connectCalls - 1
          /\ connection = "open"

W_C4 ==
    /\ pc = "returned"
    /\ disconnectCalls >= 3
    /\ \E i, j, k \in 1..Len(connectLog) :
          /\ connectLog[i] # "ok"
          /\ execLog[j] = "raised"
          /\ execLog[k] = "returned"

\* ======================================================================
\* Properties of the batch call (checked under SpecBatch)
\* ======================================================================

\* the task a result entry names: at top level (the exception dicts), in its
\* data (a successful collection) or in its error text (exhausted retries)
EntryTaskId(e) ==
    IF e.task_id # 0 THEN e.task_id
    ELSE IF e.data.present THEN e.data.task_id
    ELSE e.error.task_id

\* the positions of the result list that name task i
EntriesOf(i) == {n \in 1..Len(pool_results) : EntryTaskId(pool_results[n]) = i}

\* the tasks whose task function ended with an exception
RaisedTasks == {i \in TaskIds : futResult[i].kind \in {"raise", "raise_empty"}}

\* the W of a batch call: max_workers, or the configured default when not given
EffectiveMaxWorkers == IF max_workers # 0 THEN max_workers ELSE max_concurrent_threads

\* the batch must run serially: threading disabled by the caller's flag or by the
\* pool's enabled setting, or at most one task
SerialCondition ==
    \/ ntasks <= 1
    \/ ~pool_enabled
    \/ (entry = "execute_batch_tasks"
          /\ ~use_threading(enable_threading, settings_enable_threading))

\* C5: a parallel batch of N > 1 tasks that returns has exactly N result entries
\* and every submitted task_id is named by exactly one of them, whatever the
\* order in which the tasks complete.
C5_EveryTaskOnce ==
    (bpc = "returned" /\ mode = "parallel") =>
        /\ ntasks > 1
        /\ Len(pool_results) = ntasks
        /\ \A i \in TaskIds : Cardinality(EntriesOf(i)) = 1
        /\ entry = "execute_batch_tasks" =>
              /\ batch_result.task_results = pool_results
              /\ batch_result.total_tasks = ntasks

W_C5 ==
    /\ bpc = "returned"
    /\ mode = "parallel"
    /\ ntasks = MaxTasks
    /\ Len(pool_results) = MaxTasks
    /\ EntryTaskId(pool_results[1]) = MaxTasks
    /\ RaisedTasks # {}

CE_C7_TimeoutBecomesFailedEntry ==
    timed_out =>
        /\ bpc # "raised"
        /\ raised_error = "none"
        /\ bpc = "returned" =>
              /\ Len(pool_results) = ntasks
              /\ \A i \in TaskIds : Cardinality(EntriesOf(i)) = 1

\* C8: once the pool-wide timeout has elapsed the parallel batch call ends, also
\* when a dispatched task never completes.
CE_C8_ReturnsAfterTimeout ==
    timed_out ~> (bpc \in {"returned", "raised"})

\* C9: when threading is disabled (caller's flag or pool setting) or the batch has
\* at most one task, the tasks run one after another in submission order: task
\* i+1 is entered only after task i has returned, and the result list is in
\* submission order.
C9_SerialInSubmissionOrder ==
    (bpc # "start" /\ SerialCondition) =>
        /\ mode \in {"serial_batch", "serial_pool"}
        /\ startOrder = [n \in 1..Len(startOrder) |-> n]
        /\ Cardinality(Running) <= 1
        /\ \A i \in TaskIds : fut[i] # "none" =>
              \A j \in 1..(i - 1) : fut[j] = "collected"
        /\ \A n \in 1..Len(pool_results) : EntryTaskId(pool_results[n]) = n
        /\ bpc = "returned" => Len(pool_results) = ntasks

W_C9 ==
    /\ bpc = "returned"
    /\ mode = "serial_batch"
    /\ enable_threading = "false"
    /\ pool_enabled
    /\ ntasks = MaxTasks
    /\ startOrder = [n \in 1..MaxTasks |-> n]
    /\ Len(pool_results) = MaxTasks

\* C10: during a parallel batch of N tasks with maxWorkers = W the number of tasks
\* executing at the same time never exceeds min(W, N).
C10_BoundedConcurrency ==
    mode = "parallel" =>
        Cardinality(Running) <= Min(EffectiveMaxWorkers, ntasks)

W_C10 ==
    /\ mode = "parallel"
    /\ ntasks = MaxTasks
    /\ Cardinality(Running) = Min(EffectiveMaxWorkers, ntasks)
    /\ Cardinality(Running) >= 2
    /\ Queued # {}

\* ======================================================================
\* Properties of the command resolver
\* ======================================================================

\* the caller set the field to something other than its default
IsExplicit(c, f) ==
    CASE f = "expect_string" -> c.expect_string # "None"
      [] f = "delay_factor"  -> c.delay_factor # 10
      [] f = "max_loops"     -> c.max_loops # 500

AllDefault(c) == \A f \in FieldNames : ~IsExplicit(c, f)

\* positions of the overrides of the profile stored for the caller's command,
\* both texts trimmed and lower-cased
OverridesFor(c, prof) ==
    {k \in 1..Len(prof.commands) :
        lower(strip(prof.commands[k].command)) = lower(strip(c.command))}

\* what the profile says about field f of command c: the first override stored
\* for the command if it defines f, else the generic default if it defines f,
\* else the caller's value
ProfileField(c, prof, f) ==
    LET ks == OverridesFor(c, prof) IN
    IF ks # {} /\ f \in prof.commands[CHOOSE k \in ks : \A j \in ks : k <= j].has
    THEN prof.commands[CHOOSE k \in ks : \A j \in ks : k <= j][f]
    ELSE IF f \in prof.command_params.has THEN prof.command_params[f]
    ELSE c[f]

C12_DefaultsFilledFromProfile ==
    (rpc = "resolved" /\ profile.present /\ AllDefault(cmd)) =>
        /\ resolved.expect_string = ProfileField(cmd, profile, "expect_string")
        /\ resolved.delay_factor = ProfileField(cmd, profile, "delay_factor")
        /\ resolved.max_loops = ProfileField(cmd, profile, "max_loops")
        /\ (profile = HuaweiProfile /\ cmd.command = display_current_configuration)
           => (/\ resolved.expect_string = "]"
               /\ resolved.delay_factor = 30
               /\ resolved.max_loops = 2000)

\* huawei 'display version': the override defines max_loops as 500, the default
\* value, and it wins over the generic 1000
W_C12 ==
    /\ rpc = "resolved"
    /\ profile = HuaweiProfile
    /\ cmd.command = display_version
    /\ AllDefault(cmd)
    /\ resolved.expect_string = "]"
    /\ resolved.delay_factor = 20
    /\ resolved.max_loops = 500

\* the command texts the callers of the model use
CallerTexts == Texts \cup HuaweiCommandTexts

\* C13: the override lookup trims and lower-cases both texts: a command whose
\* text differs from the caller's only in case or surrounding whitespace
\* resolves to the same expect_string, delay_factor and max_loops, and the
\* resolved command keeps the caller's text.
C13_LookupTrimmedCaseInsensitive ==
    rpc = "resolved" =>
        /\ resolved.command = cmd.command
        /\ \A t \in CallerTexts :
              lower(strip(t)) = lower(strip(cmd.command)) =>
                 LET other == apply_plugin_command_params(
                                 [cmd EXCEPT !.command = t], profile) IN
                 /\ other.expect_string = resolved.expect_string
                 /\ other.delay_factor = resolved.delay_factor
                 /\ other.max_loops = resolved.max_loops
                 /\ other.command = t

\* ' Display current-configuration ' finds the display_current_configuration entry
W_C13 ==
    /\ rpc = "resolved"
    /\ profile = HuaweiProfile
    /\ cmd.command = caller_display_current_configuration
    /\ AllDefault(cmd)
    /\ resolved.command = caller_display_current_configuration
    /\ resolved.max_loops = 2000
    /\ resolved.delay_factor = 30
    /\ resolved.expect_string = "]"

\* ======================================================================
\* Properties of input validation
\* ======================================================================

\* C14: a task with invalid credentials is rejected before any network
\* connection is opened and is never retried: no backoff sleep and no second
\* connect attempt happen for it.
CE_C14_InvalidCredentialsNotRetried ==
    ~creds_valid =>
        /\ networkOpens = 0
        /\ connectCalls <= 1
        /\ sleeps = <<>>

\* the part of C14 that the code keeps: no connection is opened
InvalidCredentialsOpenNothing == ~creds_valid => networkOpens = 0

\* the keyword argument was given to the constructor
Supplied(v) == v # "missing"

\* C15: constructing credentials fails with a validation error when host or
\* username is missing, or when neither password nor private_key is supplied;
\* no credentials value without an auth secret exists.
CE_C15_CredentialsNeedSecret ==
    (/\ credsOut # "none"
     /\ \/ ~Supplied(credsIn.host)
        \/ ~Supplied(credsIn.username)
        \/ ~Supplied(credsIn.password) /\ ~Supplied(credsIn.private_key))
    => credsOut = "ValidationError"

\* the part of C15 that the code keeps: host and username are required
MissingHostOrUserRejected ==
    (credsOut # "none" /\ (~Supplied(credsIn.host) \/ ~Supplied(credsIn.username)))
    => credsOut = "ValidationError"

\* C16: a task with an empty command list is rejected before it reaches
\* collect_with_retry: no connect attempt is made for it and it produces no
\* success result.
CE_C16_EmptyCommandListRejected ==
    ncommands = 0 =>
        /\ connectCalls = 0
        /\ ~(result.returned /\ result.success)

\* ======================================================================
\* Properties of the task results
\* ======================================================================

\* the result carries data and no error when it succeeded, a non-empty error
\* and no data when it failed
WellFormedResult(r) ==
    IF r.success THEN r.data.present /\ ~r.error.present
    ELSE r.error.present /\ r.error.text = "message" /\ ~r.data.present

\* entry n of the result list was built by the core: by collect_with_retry or the
\* wrapper in a batch call, by the pool's except branch in a direct pool call
BuiltByCore(n) ==
    \/ entry = "execute_batch_tasks"
    \/ EntryTaskId(pool_results[n]) \in RaisedTasks

\* C17: every task result produced by collect_with_retry, by the batch task
\* wrapper or by the pool's exception conversion carries a success flag and
\* exactly one of data / error: data and no error on success, a non-empty error
\* and no data on failure.
CE_C17_DataXorError ==
    \A n \in 1..Len(pool_results) : BuiltByCore(n) => WellFormedResult(pool_results[n])

\* the part of C17 that holds: the results of collect_with_retry
RetryResultWellFormed == result.returned => WellFormedResult(result)

\* the part of C17 that holds: the entries of execute_batch_tasks
BatchEntriesWellFormed ==
    entry = "execute_batch_tasks" =>
        \A n \in 1..Len(pool_results) : WellFormedResult(pool_results[n])

\* the task id a result carries: a top-level field, a field of data, or the id
\* named in the error text; 0 if none
CarriedTaskId(r) ==
    IF r.task_id # 0 THEN r.task_id
    ELSE IF r.data.present THEN r.data.task_id
    ELSE r.error.task_id

\* the host a result carries: a top-level field or a field of data; 0 if none
CarriedHost(r) == IF r.host # 0 THEN r.host ELSE r.data.host

\* C18: every result returned by collect_with_retry carries the task_id and the
\* host of its CollectionTask, on success and when the retries are exhausted.
CE_C18_ResultIdentifiesTask ==
    result.returned =>
        /\ CarriedTaskId(result) = TheTaskId
        /\ CarriedHost(result) = host_of(TheTaskId)

\* the part of C18 that holds: a successful result names task and host in data
SuccessResultIdentifiesTask ==
    (result.returned /\ result.success) =>
        /\ result.data.task_id = TheTaskId
        /\ result.data.host = host_of(TheTaskId)

\* ======================================================================
\* Properties of the batch summary and of the lifecycle records
\* ======================================================================

\* C19: the success flag of the batch result follows 'success_count > 0': true
\* when at least one task succeeded, false when none did; the failed count is
\* the total number of tasks minus the succeeded ones.
CE_C19_BatchSuccessIffSomeTaskSucceeded ==
    batch_result.present =>
        /\ batch_result.success <=> (batch_result.success_tasks > 0)
        /\ batch_result.failed_tasks =
              batch_result.total_tasks - batch_result.success_tasks

\* the part of C19 that holds: the counts of the summary
BatchCountsAddUp ==
    batch_result.present =>
        /\ batch_result.total_tasks = ntasks
        /\ batch_result.success_tasks =
              Cardinality({n \in 1..Len(batch_result.task_results) :
                              batch_result.task_results[n].success})
        /\ batch_result.failed_tasks =
              batch_result.total_tasks - batch_result.success_tasks

\* the terminal status for a result
terminal_status(r) == IF r.success THEN "completed" ELSE "failed"

\* C20: the lifecycle records of a run are pending, running, then exactly one
\* terminal record: 'running' is recorded once, before the first connect,
\* 'completed' iff the result has success = true, 'failed' iff it has
\* success = false, and nothing follows the terminal record.
CE_C20_LifecycleOrder ==
    /\ connectCalls > 0 => lifecycle = <<"pending", "running">> \/ result.returned
    /\ result.returned =>
          lifecycle = <<"pending", "running", terminal_status(result)>>
    /\ ~result.returned => lifecycle \in {<<>>, <<"pending">>, <<"pending", "running">>}

\* the part of C20 that holds: the records written are in the order pending,
\* running, terminal, each at most once, running never after a connect, and the
\* terminal record agrees with the result
LifecycleRecordsInOrder ==
    /\ [](/\ lifecycle \in
               {<<>>, <<"pending">>, <<"pending", "running">>}
               \cup {<<"pending", t>> : t \in {"completed", "failed"}}
               \cup {<<"pending", "running", t>> : t \in {"completed", "failed"}}
          /\ (lifecycle # <<>> /\ lifecycle[Len(lifecycle)] \in {"completed", "failed"})
                => (result.returned
                    /\ lifecycle[Len(lifecycle)] = terminal_status(result)))
    /\ [][(lifecycle' # lifecycle /\ lifecycle'[Len(lifecycle')] = "running")
             => connectCalls = 0]_vars

\* ======================================================================
\* Properties of persistence in collect_with_retry
\* ======================================================================

\* the result the run returns, read from the connect and command outcomes only
ResultFromAttempts ==
    IF execLog # <<>> /\ execLog[Len(execLog)] = "returned"
    THEN format_ssh_result(TRUE, result_data(TheTaskId, results, Len(connectLog) - 1),
                           NoError)
    ELSE format_ssh_result(FALSE, NoData,
                           failure_error(TheTaskId, retry_count, last_error))

\* number of times the persistence call c was made
CallCount(c) == Cardinality({k \in 1..Len(dbCalls) : dbCalls[k] = c})

\* some persistence call of the run raised: a record is missing
PersistenceFailed ==
    lifecycle \notin {<<"pending", "running", "completed">>,
                      <<"pending", "running", "failed">>}

\* C21: when creating the task record, marking it running or recording the end
\* raises, the run makes the connect attempts and returns the success flag and
\* data / error that the connect and command outcomes alone determine, as it does
\* when persistence succeeds, and no persistence call is made a second time.
C21_PersistenceFailuresNonFatal ==
    /\ \A c \in {"create", "running", "complete"} : CallCount(c) <= 1
    /\ pc = "returned" =>
          /\ result.returned
          /\ result = ResultFromAttempts
          /\ connectCalls = Len(connectLog)
          /\ connectCalls = IF result.success THEN result.data.attempt
                            ELSE Max(retry_count, 0)
          /\ dbCalls[Len(dbCalls)] = "complete"

\* create_task_record raised, two connects failed, the third attempt succeeded
W_C21 ==
    /\ pc = "returned"
    /\ PersistenceFailed
    /\ lifecycle = <<>>
    /\ dbCalls = <<"create", "complete">>
    /\ result.success
    /\ connectCalls = 3

\* ======================================================================
\* Properties of the thread pool
\* ======================================================================

\* the client thread is inside a submit_task call
SubmitPending ==
    \/ p_client \in {"submit_wait", "submit_locked", "submit_after_start"}
    \/ p_client \in {"start_wait", "start_locked"} /\ p_nested

\* the client thread waits for the lock that it holds itself
SelfBlocked == p_client = "start_wait" /\ p_nested /\ p_lock = "client"

\* C22: submit_task on a pool without executor (never started, or stopped
\* before) allocates the executor, registers the future under the task id and
\* returns it; the call always terminates and never waits for the pool's own lock.
CE_C22_SubmitAllocatesLazily ==
    /\ [](~SelfBlocked)
    /\ [](\A i \in PoolTasks :
             (p_enabled /\ p_ret[i] # "none") => (p_ret[i] = "future" /\ p_status[i] # "none"))
    /\ SubmitPending ~> ~SubmitPending

\* the part of C22 that holds: a submit_task call that returns on an enabled
\* pool returns a future that it registered
SubmitReturnsRegisteredFuture ==
    [][(SubmitPending /\ ~SubmitPending' /\ p_enabled)
          => (p_ret'[p_next] = "future" /\ p_next \in p_active'
              /\ p_status'[p_next] = "queued")]_vars

\* a stop() call returns in this step
StopReturns == p_stopper \in {"stop_locked", "shutdown"} /\ p_stopper' = "idle"

\* C23: when stop() returns the executor is released, the registry is empty and
\* no task dispatched by the pool, through submit_task or through a running
\* batch, is still queued or executing.
CE_C23_StopLeavesNothingRunning ==
    [][StopReturns =>
          /\ p_executor' = "none"
          /\ p_active' = {}
          /\ \A i \in PoolTasks : p_status'[i] # "queued" /\ ~executing(p_status'[i])
          /\ p_batch' # "running"]_vars

\* the part of C23 that holds: executor, registry and the submitted tasks
StopWaitsForSubmittedTasks ==
    [][StopReturns =>
          /\ p_executor' = "none"
          /\ p_active' = {}
          /\ \A i \in PoolTasks : p_status'[i] # "queued" /\ ~executing(p_status'[i])]_vars

\* C24: a task that is in its backoff sleep or mid-connect when stop() is
\* invoked makes no further connect attempt, and a task that was mid-connect or
\* mid-command has disconnected when stop() has returned.
CE_C24_StopInterruptsRunningTasks ==
    /\ \A i \in PoolTasks : ~p_lateConnect[i]
    /\ \A i \in PoolTasks :
          (p_stopper = "idle" /\ p_atStop[i] \in {"connect", "command"})
             => p_status[i] = "done"

\* the part of C24 that holds: the tasks running at stop() have ended, and so
\* have disconnected, when stop() has returned
RunningTasksDisconnectBeforeStopReturns ==
    \A i \in PoolTasks :
        (p_stopper = "idle" /\ p_atStop[i] # "none") => p_status[i] = "done"

\* ======================================================================
\* Properties of the plugin registry
\* ======================================================================

\* the files that define DEVICE_CONFIG and load without error
WellFormedEntries == {i \in 1..Len(g_files) : g_files[i] = "good"}

\* C25: a lookup that runs while reload is in progress observes the complete
\* old table or the complete new table, never an empty or partial one.
CE_C25_ReloadAtomic == g_seen.made => g_seen.table = WellFormedEntries

\* the part of C25 that holds: what a lookup observes is never more than the table
LookupSeesSubset == g_seen.made => g_seen.table \subseteq WellFormedEntries

\* C26: whatever entries are unreadable, raise while being loaded or lack
\* DEVICE_CONFIG, the load ends without raising and the registry holds exactly
\* the well-formed entries under their own keys; a bad entry does not keep a
\* later good one from being registered.
C26_LoadSkipsBadEntries ==
    /\ g_pc # "raised"
    /\ g_pc = "ready" => g_plugins = WellFormedEntries
    /\ g_pc = "loading" =>
          g_plugins = {i \in WellFormedEntries : i < g_idx}

\* a raising file first, a good file last, and the last one is registered
W_C26 ==
    /\ g_pc = "ready"
    /\ Len(g_files) = MaxFiles
    /\ g_files[1] = "raises"
    /\ g_files[MaxFiles] = "good"
    /\ g_plugins = WellFormedEntries
    /\ MaxFiles \in g_plugins
    /\ 1 \notin g_plugins

\* ---------------------------------------------------------------- session

ConnectRaised == s_last.call = "connect" /\ s_last.outcome = "raised"

\* C27: a failed connect never leaves the Session Executor with a connection
\* handle: after connect raises, the instance holds no connection (so that a
\* following execute_command is rejected as not connected).
CE_C27_FailedConnectLeavesNoHandle ==
    ConnectRaised => s_conn = 0

\* what the code guarantees: a failed connect leaves self.connection as it was,
\* so an instance that held no connection holds none afterwards, and without a
\* connection execute_commands is rejected before anything is sent
FailedConnectKeepsHandle ==
    /\ ConnectRaised => s_conn = s_prev
    /\ (s_last.call = "execute_commands" /\ s_prev = 0)
          => (s_last.outcome = "rejected" /\ s_sent = <<>> /\ s_results = <<>>)

\* C28: one Session Executor instance holds at most one live connection at a
\* time.
CE_C28_AtMostOneLiveConnection ==
    Cardinality(s_live) <= 1

\* what the code guarantees: the instance refers to at most one transport, the
\* one opened last
HandleIsLastOpened ==
    /\ s_conn \in {0, s_opened}
    /\ s_live \subseteq 1..s_opened

ExecuteFinished ==
    /\ s_last.call = "execute_commands"
    /\ s_prev # 0
    /\ s_last.outcome \in {"returned", "raised"}

InOrderResults ==
    /\ s_last.outcome = "returned"
    /\ Len(s_results) = Len(s_plan)
    /\ s_sent = [k \in 1..Len(s_plan) |-> k]
    /\ \A k \in 1..Len(s_plan) :
          /\ s_results[k].command = k
          /\ s_results[k].success = (s_plan[k] = "ok")
          /\ s_results[k].error = ~s_results[k].success

NothingEscapes == \A k \in 1..Len(s_plan) : s_plan[k] # "escape"

C30_DisconnectIdempotent ==
    s_last.call = "disconnect" =>
        /\ s_last.outcome = "returned"
        /\ s_conn = 0
        /\ s_prev = 0 => (s_last.ops = 0 /\ ~s_last.close_error)
        /\ s_prev # 0 => s_last.ops = 1

\* a disconnect on an instance that was connected and disconnected before
W_C30 ==
    /\ s_last.call = "disconnect"
    /\ s_last.outcome = "returned"
    /\ s_prev = 0
    /\ s_opened > 0
    /\ s_last.ops = 0

\* a disconnect whose transport close raised
W_C30_CloseRaised ==
    /\ s_last.call = "disconnect"
    /\ s_last.outcome = "returned"
    /\ s_last.close_error
    /\ s_conn = 0


\* ------------------------------------------- resolver: lookup, purity, send

\* no profile exists for the device type of the call
NoProfileForDevice ==
    \/ ~plugins.available
    \/ device_type # KnownType
    \/ ~plugins.config.present

\* C31: when no profile exists for the device_type (unknown tag, or no registry
\* available) the resolver returns the caller's command with every field
\* unchanged; the lookup of the unknown device_type yields absent, and neither
\* the registry nor the caller's command is changed by it.
C31_NoProfileReturnsUnchanged ==
    /\ []((rpc \in {"resolved", "again", "sent"} /\ NoProfileForDevice) =>
             /\ profile = NoProfile
             /\ resolved = cmd)
    /\ [][plugins' = plugins /\ device_type' = device_type]_vars

\* an unknown device type looked up in a registry that holds the Huawei
\* profile, for a command the Huawei profile would change
W_C31 ==
    /\ rpc = "resolved"
    /\ device_type = OtherType
    /\ plugins = Registry(HuaweiProfile)
    /\ cmd.command = display_current_configuration
    /\ AllDefault(cmd)
    /\ profile = NoProfile
    /\ resolved = cmd

\* C34: the delay_factor and max_loops passed to the SSH library are exactly
\* those of the effective command produced by the resolver, whether or not an
\* expect_string is set.
CE_C34_EffectiveParamsReachLibrary ==
    rpc = "sent" =>
        /\ sent.delay_factor = resolved.delay_factor
        /\ sent.max_loops = resolved.max_loops

\* what the code guarantees: with an expect_string the effective values are
\* passed; without one the library gets at least 3.0 and 1000, and never less
\* than the effective values
SendPassesOrRaisesToFloor ==
    rpc = "sent" =>
        IF resolved.expect_string # "None"
        THEN /\ sent.expect_string = resolved.expect_string
             /\ sent.delay_factor = resolved.delay_factor
             /\ sent.max_loops = resolved.max_loops
        ELSE /\ sent.delay_factor = Max(resolved.delay_factor, min_delay_factor)
             /\ sent.max_loops = Max(resolved.max_loops, min_max_loops)
             /\ sent.auto_find_prompt

\* C38: the resolver is idempotent and does not change its input: resolving
\* the resolved command again for the same device type gives the same command,
\* and the caller's command has the same field values after every call.
C38_ResolverIdempotentPure ==
    /\ [](rpc = "again" => resolved_again = resolved)
    /\ [][cmd' = cmd]_vars

\* huawei 'display version' with all fields at default: the profile changes the
\* command (the override's max_loops is the default value 500), and a second
\* call changes nothing more
W_C38 ==
    /\ rpc = "again"
    /\ profile = HuaweiProfile
    /\ cmd.command = display_version
    /\ AllDefault(cmd)
    /\ resolved # cmd
    /\ resolved.max_loops = default_max_loops
    /\ resolved_again = resolved


\* ------------------------------------------------- batch summary: commands, mode

CountKeys == {"total_commands", "success_commands", "failed_commands"}

\* the command count of one task result: where the result carries it, at the
\* top level (the wrapper's failure dict) or inside data (collect_with_retry)
task_count(r, key) ==
    IF r.counts.present THEN r.counts[key]
    ELSE IF r.data.present THEN r.data[key]
    ELSE 0

RECURSIVE sum_task_counts(_, _)
sum_task_counts(rs, key) ==
    IF rs = <<>> THEN 0
    ELSE task_count(Head(rs), key) + sum_task_counts(Tail(rs), key)

BatchReturned ==
    /\ entry = "execute_batch_tasks"
    /\ bpc = "returned"
    /\ batch_result.present

\* C35: the batch summary's total_commands, success_commands and
\* failed_commands equal the sums of the per-task command counts over all task
\* results, for successful tasks as well as failed ones.
CE_C35_CommandCountsAddUp ==
    BatchReturned =>
        \A key \in CountKeys :
            batch_result[key] = sum_task_counts(batch_result.task_results, key)

\* what the code guarantees: the summary adds up the counts found at the top
\* level of the task results, which only the failure dict of
\* _execute_single_task has; a result of collect_with_retry adds nothing
CommandCountsOfWrapperFailuresOnly ==
    BatchReturned =>
        /\ batch_result.success_commands = 0
        /\ batch_result.total_commands = batch_result.failed_commands
        /\ batch_result.total_commands =
              MaxBatchCmds * Cardinality({k \in 1..Len(batch_result.task_results) :
                                             batch_result.task_results[k].counts.present})

\* C36: the concurrency mode reported in the batch result is the mode used:
\* threading_enabled = true with max_workers = W only when the tasks were
\* dispatched to worker threads; a batch that ran serially reports threading
\* disabled with max_workers = 1.
CE_C36_ReportedModeIsModeUsed ==
    BatchReturned =>
        IF mode = "parallel"
        THEN batch_result.threading_enabled
        ELSE ~batch_result.threading_enabled /\ batch_result.max_workers = 1

\* what the code guarantees: the report repeats the caller's flag (or the
\* setting); a parallel run is always reported as threaded, and a run reported
\* as not threaded was serial and reports max_workers = 1
ReportedModeIsCallerFlag ==
    BatchReturned =>
        /\ batch_result.threading_enabled =
              use_threading(enable_threading, settings_enable_threading)
        /\ mode = "parallel" => batch_result.threading_enabled
        /\ ~batch_result.threading_enabled =>
              (mode = "serial_batch" /\ batch_result.max_workers = 1)
        /\ batch_result.threading_enabled =>
              batch_result.max_workers = batch_workers(max_workers)


\* ------------------------------------------------- pool: registry lock, batches

\* the threads that are inside a block that modifies or enumerates the registry
InRegistrySection ==
    (IF p_client \in {"submit_locked", "submit_after_start"} THEN {"client"} ELSE {})
    \cup (IF p_stopper \in {"stop_locked", "shutdown"} THEN {"stopper"} ELSE {})
    \cup (IF p_observer \in {"pop_locked", "status_locked"} THEN {"observer"} ELSE {})

\* C32: every insert into, removal from and enumeration of the in-flight
\* registry (submit_task, wait_for_task, cancel_task, stop,
\* get_active_task_count, get_status) is made by a thread that holds the
\* pool's lock, so no two threads modify or iterate the registry at the same
\* time.
C32_RegistryAccessUnderLock ==
    /\ p_access.kind \in {"insert", "remove", "enumerate"} => p_access.locked
    /\ Cardinality(InRegistrySection) <= 1
    /\ InRegistrySection \subseteq {p_lock}

\* cancel_task removed the entry of a cancelled task, holding the lock, while
\* the client thread had submitted it
W_C32 ==
    /\ p_access = [thread |-> "observer", method |-> "pop", kind |-> "remove",
                   locked |-> TRUE]
    /\ p_status[p_obs_task] = "cancelled"
    /\ p_obs_task \notin p_active
    /\ p_ret[p_obs_task] = "future"

\* the lookups of wait_for_task and cancel_task are made without the lock
LookupsTakeNoLock ==
    p_access.kind = "lookup" => ~p_access.locked

\* C33: a batch run leaves the pool's state unchanged: no step of
\* execute_tasks_parallel, whether it returns or fails, changes the pool's
\* executor reference, in-flight registry, max_workers or enabled flag, and
\* its own executor is gone when it has ended.
C33_BatchLeavesPoolUnchanged ==
    /\ [](p_batch \in {"finished", "failed"} => p_local = "none")
    /\ [][p_batch' # p_batch =>
            UNCHANGED <<p_executor, p_active, p_max_workers, p_enabled, p_lock>>]_vars

\* a second batch has failed beside a pool that holds an executor and a
\* registered task
W_C33 ==
    /\ p_batch = "failed"
    /\ p_batches = 2
    /\ p_executor = "alloc"
    /\ p_active # {}


\* ------------------------------------------------- retry_count <= 0

\* C37: a task with retry_count <= 0 makes no connect attempt and no backoff
\* sleep; collect_with_retry still ends (the loop is skipped and the only step
\* left is the one that returns), makes its one complete_task call with the
\* terminal status 'failed' and returns a result with success = false.
C37_NoAttemptWithoutRetries ==
    retry_count <= 0 =>
        /\ connectCalls = 0
        /\ networkOpens = 0
        /\ disconnectCalls = 0
        /\ sleeps = <<>>
        /\ pc \in {"start", "loop", "returned"}
        /\ pc = "loop" => attempt >= retry_count
        /\ pc = "returned" =>
              /\ result.returned
              /\ ~result.success
              /\ result.error.present
              /\ ~result.data.present
              /\ dbCalls # <<>>
              /\ dbCalls[Len(dbCalls)] = "complete"
              /\ CallCount("complete") = 1
              /\ \A k \in 1..Len(lifecycle) :
                    /\ lifecycle[k] # "completed"
                    /\ lifecycle[k] = "failed" => k = Len(lifecycle)

\* a run with a negative retry_count has returned its failure and the record
\* of the task ends with 'failed'
W_C37 ==
    /\ retry_count = -1
    /\ pc = "returned"
    /\ ~result.success
    /\ lifecycle # <<>>
    /\ lifecycle[Len(lifecycle)] = "failed"


\* ------------------------------------------------- message queue consumer

\* a thread is between the add and the discard of its call for task id
Executing(id) ==
    \E t \in ProcThreads : q_task[t] = id /\ q_pc[t] \in {"executing", "finally"}

ExecutingThreads(id) ==
    {t \in ProcThreads : q_task[t] = id /\ q_pc[t] \in {"executing", "finally"}}

\* C39: the TaskProcessor keeps a task_id in its processing set exactly while
\* that task is being executed; a submission whose task_id is in the set is
\* rejected without executing and without removing the entry, and after a call
\* returns on any other path its task_id is not in the set.
CE_C39_ProcessingSetTracksExecution ==
    /\ \A id \in ProcTaskIds : id \in q_processing <=> Executing(id)
    /\ \A id \in ProcTaskIds : Cardinality(ExecutingThreads(id)) <= 1

\* what the code guarantees: an id is in the set only while some call for it is
\* between its add and its discard, so no id is left behind by a call that
\* has returned, whatever the outcome of the execution
ProcessingSetNeverStale ==
    \A id \in q_processing : Executing(id)

\* a rejected call leaves the set and the running call as they are
RejectionChangesNothing ==
    [][\A t \in ProcThreads :
          (q_pc[t] = "check" /\ q_pc'[t] = "returned")
             => (q_result'[t] = "rejected" /\ q_processing' = q_processing
                 /\ q_task[t] \in q_processing)]_vars

\* the settlement the claim prescribes for a body
prescribed_settlement(body) ==
    IF body = "task" THEN <<"ack">>
    ELSE IF body \in {"not_json", "not_utf8"} THEN <<"nack">>
    ELSE <<"nack_requeue">>

\* C40: every message delivered to the consumer is settled exactly once:
\* acknowledged after the task was processed, also when publishing the result
\* fails; rejected without requeue when the body is not valid JSON; rejected
\* with requeue on any other error.
CE_C40_SettledExactlyOnce ==
    \A k \in 1..Len(m_history) :
        m_history[k].settled = prescribed_settlement(m_history[k].body)

\* what the code guarantees: one basic_ack or basic_nack per delivery; the ack
\* comes after processing and the publish attempt, whether that failed or not;
\* a JSONDecodeError is rejected without requeue and every other exception,
\* the UnicodeDecodeError of a body that is not UTF-8 included, with requeue
SettledOncePerDelivery ==
    /\ Len(m_settled) <= 1
    /\ m_pc = "idle" => Len(m_history) = m_count
    /\ \A k \in 1..Len(m_history) :
          LET d == m_history[k] IN
          /\ Len(d.settled) = 1
          /\ d.settled = <<"ack">> <=> d.body = "task"
          /\ d.settled = <<"ack">> =>
                (Len(d.log) = 3 /\ d.log[1] = "parsed"
                 /\ d.log[2] \in {"success", "failure"}
                 /\ d.log[3] \in {"published", "publish_failed"})
          /\ d.settled = <<"nack">> <=> d.body = "not_json"
          /\ d.settled = <<"nack_requeue">> <=> d.body \in {"not_utf8", "json_not_object"}

====
